---- MODULE Spec2Model ----
(***************************************************************************)
(* Model of odelib: explicit Runge-Kutta single-step integrators and the   *)
(* general linear multistep engine with its rolling history                *)
(* (src/src/singlestep.c, src/src/multistep.c).                            *)
(*                                                                         *)
(* Scalars are exact rationals <<num, den>> (den > 0, lowest terms): the   *)
(* model follows the order of the C expressions but not the rounding of    *)
(* IEEE doubles.  Arrays are functions over 0 .. len-1, addressed as the   *)
(* code addresses them (block * system_size + component).                  *)
(***************************************************************************)
EXTENDS Integers, Sequences, FiniteSets, TLC

(***************************************************************************)
(* Bounds of the model                                                     *)
(***************************************************************************)
\* largest system size (number of equations) a workspace is built for
MaxSize == 2
\* largest number of history rolls (accepted steps) in one run
MaxSteps == 2
\* largest corrector iteration count a caller passes
MaxIter == 2

(***************************************************************************)
(* Exact rational arithmetic, with one value for what is not a finite      *)
(* double: an operation on doubles that meets it yields it (Inf + y, 0 *   *)
(* Inf, 0 * NaN, y + NaN are all non-finite in IEEE 754).                  *)
(***************************************************************************)
\* a NaN or an infinity
NaN == <<1, 0>>

Abs(k) == IF k < 0 THEN -k ELSE k

RECURSIVE GCD(_, _)
GCD(p, q) == IF q = 0 THEN p ELSE GCD(q, p % q)

Norm(p, q) ==
    IF q = 0 THEN NaN
    ELSE LET g == GCD(Abs(p), Abs(q))
             s == IF q < 0 THEN -1 ELSE 1
         IN  <<(s * p) \div g, (s * q) \div g>>

R(k) == <<k, 1>>

Zero == R(0)

RAdd(u, v) ==
    IF u[2] = 0 \/ v[2] = 0 THEN NaN
    ELSE IF u[1] = 0 THEN v
    ELSE IF v[1] = 0 THEN u
    ELSE IF u[2] = 1 /\ v[2] = 1 THEN <<u[1] + v[1], 1>>
    ELSE LET g == GCD(u[2], v[2])
         IN  Norm(u[1] * (v[2] \div g) + v[1] * (u[2] \div g),
                  (u[2] \div g) * v[2])

RNeg(u) == IF u[2] = 0 THEN NaN ELSE <<-u[1], u[2]>>

RSub(u, v) == RAdd(u, RNeg(v))

RMul(u, v) ==
    IF u[2] = 0 \/ v[2] = 0 THEN NaN
    ELSE IF u[1] = 0 \/ v[1] = 0 THEN Zero
    ELSE IF u[2] = 1 /\ v[2] = 1 THEN <<u[1] * v[1], 1>>
    ELSE LET g1 == GCD(Abs(u[1]), v[2])
             g2 == GCD(Abs(v[1]), u[2])
         IN  <<(u[1] \div g1) * (v[1] \div g2), (u[2] \div g2) * (v[2] \div g1)>>

\* u / v for v # 0
RDiv(u, v) == IF v[2] = 0 THEN NaN ELSE RMul(u, Norm(v[2], v[1]))

\* k / q as a rational literal
Q(k, q) == Norm(k, q)

\* u to the k-th power, k >= 0
RECURSIVE RPow(_, _)
RPow(u, k) == IF k = 0 THEN R(1) ELSE RMul(u, RPow(u, k - 1))

\* u cut to four decimals: the precision a double is carried to where a
\* product of two computed values would leave the range of exact fractions
Trunc(u) ==
    IF u[2] = 0 THEN NaN
    ELSE LET ip == u[1] \div u[2]
             r0 == u[1] % u[2]
             d1 == (r0 * 10) \div u[2]
             r1 == (r0 * 10) % u[2]
             d2 == (r1 * 10) \div u[2]
             r2 == (r1 * 10) % u[2]
             d3 == (r2 * 10) \div u[2]
             r3 == (r2 * 10) % u[2]
             d4 == (r3 * 10) \div u[2]
         IN  Norm(ip * 10000 + d1 * 1000 + d2 * 100 + d3 * 10 + d4, 10000)

(***************************************************************************)
(* Arrays                                                                  *)
(***************************************************************************)
\* the n cells of `arr` starting at offset `off` (a C pointer &arr[off])
Slice(arr, off, len) == [i \in 0 .. len - 1 |-> arr[off + i]]

\* rarr_copy_values(len, from, &to[off]): `to` with len cells overwritten
CopyInto(to, off, len, from) ==
    [k \in DOMAIN to |->
        IF k >= off /\ k < off + len THEN from[k - off] ELSE to[k]]

(***************************************************************************)
(* Derivative callbacks: yprime(inp, out) with inp = (system_size, x, y,   *)
(* extra_args) returns the vector written to `out`.                        *)
(***************************************************************************)
\* the ODE systems of the model: the zero system; an affine system where
\* the second equation is coupled to the first, out[1] = x + c*y[0], and
\* every other one is out[i] = c*x + 1, c = extra_args; the system of
\* constant derivative out[i] = c; the quadrature out[i] = x^q, q =
\* extra_args; and out[i] = y[i]^2, carried to four decimals
Systems == {"zero", "coupled", "const", "power", "square"}

Yprime(sys, inp) ==
    LET s == inp.system_size
        x == inp.x
        y == inp.y
        c == R(inp.extra_args)
    IN  [i \in 0 .. s - 1 |->
            IF sys = "zero" THEN Zero
            ELSE IF sys = "const" THEN c
            ELSE IF sys = "power" THEN RPow(x, inp.extra_args)
            ELSE IF sys = "square" THEN Trunc(RMul(Trunc(y[i]), Trunc(y[i])))
            ELSE IF i = 1 THEN RAdd(x, RMul(c, y[0]))
                 ELSE RAdd(RMul(c, x), R(1))]

Inp(s, x, y, args) == [system_size |-> s, x |-> x, y |-> y, extra_args |-> args]

(***************************************************************************)
(* Runge-Kutta steppers (h, x, yprime, args, ws, y) -> ynext.  A call      *)
(* threads the workspace record through its stages, together with the log *)
(* of the derivative calls made, in order, as <<x, state>> pairs; the      *)
(* result carries ynext, the workspace as the call leaves it and the log.  *)
(* The record also holds the caller's y as the call sees it, and the       *)
(* trace of the call: which buffer each derivative call was handed as the  *)
(* state and which it filled, and the write of ynext.                      *)
(***************************************************************************)
Carried == {"calls", "trace", "y"}

\* a stepper that starts its first stage from karg as it finds it
RKEnter_uncopied(ws, karg, y) ==
    [f \in DOMAIN ws \cup Carried |->
        IF f \in {"calls", "trace"} THEN << >>
        ELSE IF f = "y" THEN y
        ELSE ws[f]]

\* rarr_copy_values(sys_size, y, karg), before the first stage
RKEnter(ws, karg, y) ==
    [f \in DOMAIN ws \cup Carried |->
        IF f \in {"calls", "trace"} THEN << >>
        ELSE IF f = "y" THEN y
        ELSE IF f = karg THEN [i \in 0 .. ws.system_size - 1 |-> y[i]]
        ELSE ws[f]]

\* sys_params.x = xs; yprime(&sys_params, k), sys_params.y being karg
RKEval(w, sys, args, xs, k, karg) ==
    [w EXCEPT ![k] = Yprime(sys, Inp(w.system_size, xs, w[karg], args)),
              !.calls = Append(@, <<xs, w[karg]>>),
              !.trace = Append(@, [k |-> "call", state |-> karg, out |-> k])]

\* the final loop ynext[i] = ..., and what a stepper hands back
RKLeave(w, ynext) ==
    [ynext |-> ynext,
     ws    |-> [f \in DOMAIN w \ Carried |-> w[f]],
     calls |-> w.calls,
     y     |-> w.y,
     trace |-> Append(w.trace, [k |-> "write", state |-> "", out |-> "ynext"])]

Components(w) == 0 .. w.system_size - 1

\* real_rungekutta2: karg after k1; the weighted sum after k2
rk2_karg1(h, y, w) ==
    [w EXCEPT !.work3 =
        [i \in Components(w) |-> RAdd(RMul(h, w.work1[i]), y[i])]]

\* the weighted sum without the factor 1/2
rk2_ynext_unhalved(h, y, w) ==
    RKLeave(w, [i \in Components(w) |->
        RAdd(y[i], RMul(h, RAdd(w.work1[i], w.work2[i])))])

rk2_ynext(h, y, w) ==
    RKLeave(w, [i \in Components(w) |->
        RAdd(y[i], RMul(RMul(Q(1, 2), h), RAdd(w.work1[i], w.work2[i])))])

\* the scheme with one derivative evaluation per equation: component i of
\* k1 comes from a call of its own
RECURSIVE rk2_k1_by_component(_, _, _, _, _)
rk2_k1_by_component(i, w, sys, args, x) ==
    IF i < w.system_size
    THEN rk2_k1_by_component(i + 1,
             [w EXCEPT !.work1[i] =
                           Yprime(sys, Inp(w.system_size, x, w.work3, args))[i],
                       !.calls = Append(@, <<x, w.work3>>)],
             sys, args, x)
    ELSE w

real_rungekutta2_per_equation(h, x, sys, args, ws, y) ==
    rk2_ynext(h, y,
      RKEval(rk2_karg1(h, y,
        rk2_k1_by_component(0, RKEnter(ws, "work3", y), sys, args, x)),
             sys, args, RAdd(x, h), "work2", "work3"))

real_rungekutta2(h, x, sys, args, ws, y) ==
    rk2_ynext(h, y,
      RKEval(rk2_karg1(h, y,
        RKEval(RKEnter(ws, "work3", y),
               sys, args, x, "work1", "work3")),
             sys, args, RAdd(x, h), "work2", "work3"))

\* real_rungekutta4: karg after k1, k2, k3; the weighted sum after k4
rk4_karg1(h, y, w) ==
    [w EXCEPT !.work5 =
        [i \in Components(w) |->
            RAdd(RMul(RMul(Q(1, 2), h), w.work1[i]), y[i])]]

rk4_karg2(h, y, w) ==
    [w EXCEPT !.work5 =
        [i \in Components(w) |->
            RAdd(RMul(RMul(Q(1, 2), h), w.work2[i]), y[i])]]

rk4_karg3(h, y, w) ==
    [w EXCEPT !.work5 =
        [i \in Components(w) |-> RAdd(RMul(h, w.work3[i]), y[i])]]

\* the weighted sum with all four stages weighted alike
rk4_ynext_unweighted(h, y, w) ==
    RKLeave(w, [i \in Components(w) |->
        RAdd(y[i],
             RDiv(RMul(RAdd(RAdd(RAdd(w.work1[i], w.work2[i]),
                                 w.work3[i]), w.work4[i]), h),
                  R(4)))])

rk4_ynext(h, y, w) ==
    RKLeave(w, [i \in Components(w) |->
        RAdd(y[i],
             RDiv(RMul(RAdd(RAdd(RAdd(w.work1[i], RMul(R(2), w.work2[i])),
                                 RMul(R(2), w.work3[i])), w.work4[i]), h),
                  R(6)))])

\* the classical scheme with k3 evaluated at x + h
real_rungekutta4_late_k3(h, x, sys, args, ws, y) ==
    rk4_ynext(h, y,
      RKEval(rk4_karg3(h, y,
        RKEval(rk4_karg2(h, y,
          RKEval(rk4_karg1(h, y,
            RKEval(RKEnter(ws, "work5", y),
                   sys, args, x, "work1", "work5")),
                 sys, args, RAdd(x, RMul(Q(1, 2), h)), "work2", "work5")),
               sys, args, RAdd(x, h), "work3", "work5")),
             sys, args, RAdd(x, h), "work4", "work5"))

real_rungekutta4(h, x, sys, args, ws, y) ==
    rk4_ynext(h, y,
      RKEval(rk4_karg3(h, y,
        RKEval(rk4_karg2(h, y,
          RKEval(rk4_karg1(h, y,
            RKEval(RKEnter(ws, "work5", y),
                   sys, args, x, "work1", "work5")),
                 sys, args, RAdd(x, RMul(Q(1, 2), h)), "work2", "work5")),
               sys, args, RAdd(x, RMul(Q(1, 2), h)), "work3", "work5")),
             sys, args, RAdd(x, h), "work4", "work5"))

\* real_rungekutta5: karg after k1 .. k5; the weighted sum after k6
rk5_karg1(h, y, w) ==
    [w EXCEPT !.work7 =
        [i \in Components(w) |->
            RAdd(y[i], RMul(RDiv(h, R(4)), w.work1[i]))]]

rk5_karg2(h, y, w) ==
    [w EXCEPT !.work7 =
        [i \in Components(w) |->
            RAdd(y[i], RMul(RDiv(h, R(8)), RAdd(w.work1[i], w.work2[i])))]]

rk5_karg3(h, y, w) ==
    [w EXCEPT !.work7 =
        [i \in Components(w) |->
            RAdd(y[i], RMul(RDiv(h, R(2)), w.work3[i]))]]

\* the stage state after k4 with the sign of the k2 term lost
rk5_karg4_unsigned(h, y, w) ==
    [w EXCEPT !.work7 =
        [i \in Components(w) |->
            RAdd(y[i], RMul(RDiv(h, R(16)),
                RAdd(RAdd(RAdd(RMul(R(3), w.work1[i]),
                               RMul(R(6), w.work2[i])),
                          RMul(R(6), w.work3[i])),
                     RMul(R(9), w.work4[i]))))]]

rk5_karg4(h, y, w) ==
    [w EXCEPT !.work7 =
        [i \in Components(w) |->
            RAdd(y[i], RMul(RDiv(h, R(16)),
                RAdd(RAdd(RSub(RMul(R(3), w.work1[i]),
                               RMul(R(6), w.work2[i])),
                          RMul(R(6), w.work3[i])),
                     RMul(R(9), w.work4[i]))))]]

rk5_karg5(h, y, w) ==
    [w EXCEPT !.work7 =
        [i \in Components(w) |->
            RAdd(y[i], RMul(RDiv(h, R(7)),
                RAdd(RSub(RAdd(RAdd(RMul(R(-3), w.work1[i]),
                                    RMul(R(8), w.work2[i])),
                               RMul(R(6), w.work3[i])),
                          RMul(R(12), w.work4[i])),
                     RMul(R(8), w.work5[i]))))]]

rk5_ynext(h, y, w) ==
    RKLeave(w, [i \in Components(w) |->
        RAdd(y[i], RMul(RDiv(h, R(90)),
            RAdd(RAdd(RAdd(RAdd(RMul(R(7), w.work1[i]),
                                RMul(R(32), w.work3[i])),
                           RMul(R(12), w.work4[i])),
                      RMul(R(32), w.work5[i])),
                 RMul(R(7), w.work6[i]))))])

real_rungekutta5(h, x, sys, args, ws, y) ==
    rk5_ynext(h, y,
      RKEval(rk5_karg5(h, y,
        RKEval(rk5_karg4(h, y,
          RKEval(rk5_karg3(h, y,
            RKEval(rk5_karg2(h, y,
              RKEval(rk5_karg1(h, y,
                RKEval(RKEnter(ws, "work7", y),
                       sys, args, x, "work1", "work7")),
                     sys, args, RAdd(x, RMul(Q(1, 4), h)), "work2", "work7")),
                   sys, args, RAdd(x, RMul(Q(1, 4), h)), "work3", "work7")),
                 sys, args, RAdd(x, RMul(Q(1, 2), h)), "work4", "work7")),
               sys, args, RAdd(x, RMul(Q(3, 4), h)), "work5", "work7")),
             sys, args, RAdd(x, h), "work6", "work7"))

\* the stepper a real_rk_routine pointer designates
RKRoutines == {"rk2", "rk4", "rk5"}

CallRK(rk, h, x, sys, args, ws, y) ==
    IF rk = "rk2" THEN real_rungekutta2(h, x, sys, args, ws, y)
    ELSE IF rk = "rk4" THEN real_rungekutta4(h, x, sys, args, ws, y)
    ELSE real_rungekutta5(h, x, sys, args, ws, y)

\* get_real_rungekutta_ws(sys_size): seven fresh buffers of indeterminate
\* content g
get_real_rungekutta_ws(sys_size, g) ==
    LET buf == [i \in 0 .. sys_size - 1 |-> g]
    IN  [system_size |-> sys_size, work1 |-> buf, work2 |-> buf, work3 |-> buf,
         work4 |-> buf, work5 |-> buf, work6 |-> buf, work7 |-> buf]

(***************************************************************************)
(* Coefficient tables                                                      *)
(***************************************************************************)
Tab(num, den) == [j \in 0 .. Len(num) - 1 |-> Q(num[j + 1], den)]

\* the left-hand table with the sign of a[1] lost
ADAMS4_LEFT_unsigned == Tab(<<1, 1, 0, 0, 0>>, 1)

ADAMS4_LEFT == Tab(<<1, -1, 0, 0, 0>>, 1)
\* the three-step Adams-Bashforth weights in the four-step table
ADAMS4_PRED_three_step == Tab(<<0, 23, -16, 5, 0>>, 12)

ADAMS4_PRED == Tab(<<0, 55, -59, 37, -9>>, 24)
ADAMS4_CORR == Tab(<<9, 19, -5, 1, 0>>, 24)

ADAMS6_LEFT == Tab(<<1, -1, 0, 0, 0, 0, 0>>, 1)
ADAMS6_PRED == Tab(<<0, 4277, -7923, 9982, -7298, 2877, -475>>, 1440)
ADAMS6_CORR == Tab(<<475, 1427, -798, 482, -173, 27, 0>>, 1440)

(***************************************************************************)
(* Multistep engine.  A workspace is [ms_order, system_size, prev_der],    *)
(* prev_der having (ms_order + 1) * system_size cells.                     *)
(***************************************************************************)
\* alloc_real_multistep_wsarray: the size of prev_der
full_size(ws) == (ws.ms_order + 1) * ws.system_size

\* get_real_multistep_ws / alloc_real_multistep_wsarray: fresh buffer of
\* indeterminate content g
alloc_real_multistep_wsarray(ms_order, sys_size, g) ==
    LET w == [ms_order |-> ms_order, system_size |-> sys_size]
    IN  [ms_order |-> ms_order, system_size |-> sys_size,
         prev_der |-> [k \in 0 .. full_size(w) - 1 |-> g]]

\* block order reversed: the i-th bootstrap state in block i
InitBlock_ascending(i, st) == i * st.system_size

\* offset of the history block the i-th bootstrap state goes to
InitBlock(i, st) == (st.ms_order - 1 - i) * st.system_size

\* body of the bootstrap loop, second half: the derivative at the new grid
\* point i * h goes to the block of prev_der that matches the new state
InitDer(i, st, h, sys, args) ==
    LET s     == st.system_size
        j     == InitBlock(i, st)
        x     == RMul(R(i), h)
        ywork == Slice(st.yms_init, j, s)
    IN  [st EXCEPT !.ywork = ywork, !.x = x,
                   !.prev_der = CopyInto(@, j, s,
                                         Yprime(sys, Inp(s, x, ywork, args))),
                   !.calls = Append(@, <<x, ywork>>)]

\* body of the bootstrap loop, first half: r is what the single step from
\* (st.x, st.ywork) returned; its ynext is the history block
InitStep(i, st, r) ==
    [st EXCEPT !.yms_init = CopyInto(@, InitBlock(i, st), st.system_size,
                                     r.ynext),
               !.wsrk = r.ws,
               !.steps = Append(@, <<st.x, st.ywork>>)]

\* for (i = 1; i < ms_order; i++) { ... }
RECURSIVE InitLoop(_, _, _, _, _, _)
InitLoop(i, st, h, sys, args, rk) ==
    IF i < st.ms_order
    THEN InitLoop(i + 1,
             InitDer(i,
                 InitStep(i, st,
                     CallRK(rk, h, st.x, sys, args, st.wsrk, st.ywork)),
                 h, sys, args),
             h, sys, args, rk)
    ELSE st

\* init_real_multistep(h, yprime, args, ws, y0, rk, yms_init); g is the
\* indeterminate content of the buffers it allocates
init_real_multistep(h, sys, args, ws, y0, rk, yms_init, g) ==
    LET s     == ws.system_size
        ywork == [i \in 0 .. s - 1 |-> y0[i]]
        wsrk  == get_real_rungekutta_ws(s, g)
        j     == (ws.ms_order - 1) * s
        d     == Yprime(sys, Inp(s, Zero, ywork, args))
    IN  InitLoop(1,
                 [ms_order |-> ws.ms_order, system_size |-> s,
                  x |-> Zero, y0 |-> y0, ywork |-> ywork, wsrk |-> wsrk,
                  yms_init |-> CopyInto(yms_init, j, s, ywork),
                  prev_der |-> CopyInto(ws.prev_der, j, s, d),
                  steps |-> << >>,
                  calls |-> << <<Zero, ywork>> >>],
                 h, sys, args, rk)

\* the shift loop run upwards, for (j = 1; j < m; j++): every block up to
\* block j ends up holding block 0
ShiftChunks_upwards(j, s, arr) ==
    [k \in DOMAIN arr |->
        IF k >= s /\ k < (j + 1) * s THEN arr[k % s] ELSE arr[k]]

\* the shift loop of set_next: for (j = m - 1; j > 0; j--) block j <- block j-1
RECURSIVE ShiftChunks(_, _, _)
ShiftChunks(j, s, arr) ==
    IF j > 0
    THEN ShiftChunks(j - 1, s,
            [k \in DOMAIN arr |->
                IF k >= j * s /\ k < j * s + s THEN arr[k - s] ELSE arr[k]])
    ELSE arr

\* set_next with the new state copied to block 0 before the shift, so that
\* block 1 receives the new state as well
set_next_copy_first(xnext, sys, args, ws, y, ynext) ==
    LET m == ws.ms_order
        s == ws.system_size
    IN  [y        |-> ShiftChunks(m - 1, s, CopyInto(y, 0, s, ynext)),
         prev_der |-> CopyInto(ShiftChunks(m - 1, s, ws.prev_der), 0, s,
                               Yprime(sys, Inp(s, xnext, ynext, args))),
         calls    |-> << <<xnext, [i \in 0 .. s - 1 |-> ynext[i]]>> >>]

\* set_next with the derivative history left unshifted
set_next_state_only(xnext, sys, args, ws, y, ynext) ==
    LET m == ws.ms_order
        s == ws.system_size
    IN  [y        |-> CopyInto(ShiftChunks(m - 1, s, y), 0, s, ynext),
         prev_der |-> CopyInto(ws.prev_der, 0, s,
                               Yprime(sys, Inp(s, xnext, ynext, args))),
         calls    |-> << <<xnext, [i \in 0 .. s - 1 |-> ynext[i]]>> >>]

\* real_set_next_multistep(xnext, yprime, args, ws, y, ynext)
real_set_next_multistep(xnext, sys, args, ws, y, ynext) ==
    LET m   == ws.ms_order
        s   == ws.system_size
        ysh == ShiftChunks(m - 1, s, y)
        dsh == ShiftChunks(m - 1, s, ws.prev_der)
        y1  == CopyInto(ysh, 0, s, ynext)
        d   == Yprime(sys, Inp(s, xnext, ynext, args))
    IN  [y        |-> y1,
         prev_der |-> CopyInto(dsh, 0, s, d),
         calls    |-> << <<xnext, [i \in 0 .. s - 1 |-> ynext[i]]>> >>]

\* the inner loop reading block j instead of block j - 1
Stride_from_zero(i, j, s) == i + j * s

\* index of component i of history block j - 1
Stride(i, j, s) == i + (j - 1) * s

\* the inner loop with the state term added instead of subtracted
RECURSIVE Accumulate_adding(_, _, _, _, _, _, _, _, _, _)
Accumulate_adding(j, summ, i, m, s, h, a, b, y, der) ==
    IF j <= m
    THEN Accumulate_adding(j + 1,
             RAdd(RAdd(summ, RMul(RMul(h, b[j]), der[Stride(i, j, s)])),
                  RMul(a[j], y[Stride(i, j, s)])),
             i, m, s, h, a, b, y, der)
    ELSE summ

\* the inner loop: for (j = jj; j <= m; j++) summ = summ + h*b[j]*der - a[j]*y
RECURSIVE Accumulate(_, _, _, _, _, _, _, _, _, _)
Accumulate(j, summ, i, m, s, h, a, b, y, der) ==
    IF j <= m
    THEN LET stride == Stride(i, j, s)
         IN  Accumulate(j + 1,
                 RSub(RAdd(summ, RMul(RMul(h, b[j]), der[stride])),
                      RMul(a[j], y[stride])),
                 i, m, s, h, a, b, y, der)
    ELSE summ

\* the explicit branch starting its sum, as the implicit one does, from
\* h*b[0] times the scratch block of prev_der
ExplicitScheme_slot_zero(h, ws, y, a, b) ==
    [i \in 0 .. ws.system_size - 1 |->
        Accumulate(1,
            RMul(RMul(h, b[0]),
                 ws.prev_der[i + ws.ms_order * ws.system_size]),
            i, ws.ms_order, ws.system_size, h, a, b, y, ws.prev_der)]

\* the explicit branch leaving the increment alone in ynext, the state
\* terms a[j]*y dropped
ExplicitScheme_increment(h, ws, y, a, b) ==
    [i \in 0 .. ws.system_size - 1 |->
        Accumulate(1, Zero, i, ws.ms_order, ws.system_size, h,
                   [j \in DOMAIN a |-> Zero], b, y, ws.prev_der)]

\* the explicit branch (iter = 0)
ExplicitScheme(h, ws, y, a, b) ==
    LET m == ws.ms_order
        s == ws.system_size
    IN  [i \in 0 .. s - 1 |->
            Accumulate(1, Zero, i, m, s, h, a, b, y, ws.prev_der)]

\* the recomputation with the new derivative taken unweighted, h * der
\* instead of h * b[0] * der
CorrectorSum_unweighted(h, xh, st, y, a, b, der) ==
    LET m == st.ws.ms_order
        s == st.ws.system_size
    IN  [ws    |-> [st.ws EXCEPT !.prev_der = der],
         ynext |-> [i \in 0 .. s - 1 |->
                      Accumulate(1, RMul(h, der[i + m * s]),
                                 i, m, s, h, a, b, y, der)],
         calls |-> Append(st.calls,
                          <<xh, [i \in 0 .. s - 1 |-> st.ynext[i]]>>),
         y     |-> y]

\* one pass of the while loop of the implicit branch, second half: ynext
\* is recomputed from `der`, the buffer holding the new derivative in its
\* block m; st is [ws, ynext, calls, y]
CorrectorSum(h, xh, st, y, a, b, der) ==
    LET m == st.ws.ms_order
        s == st.ws.system_size
    IN  [ws    |-> [st.ws EXCEPT !.prev_der = der],
         ynext |-> [i \in 0 .. s - 1 |->
                      Accumulate(1, RMul(RMul(h, b[0]), der[i + m * s]),
                                 i, m, s, h, a, b, y, der)],
         calls |-> Append(st.calls,
                          <<xh, [i \in 0 .. s - 1 |-> st.ynext[i]]>>),
         y     |-> y]

\* one pass computed in place, component by component: component i of the
\* derivative is evaluated from a ynext whose components below i are
\* already the new ones
RECURSIVE InPlaceSweep(_, _, _, _, _, _, _, _, _)
InPlaceSweep(i, st, h, xh, sys, args, y, a, b) ==
    IF i < st.ws.system_size
    THEN LET m   == st.ws.ms_order
             s   == st.ws.system_size
             d   == Yprime(sys, Inp(s, xh, st.ynext, args))[i]
             der == [st.ws.prev_der EXCEPT ![m * s + i] = d]
         IN  InPlaceSweep(i + 1,
                 [st EXCEPT !.ws.prev_der = der,
                            !.ynext[i] = Accumulate(1,
                                RMul(RMul(h, b[0]), d),
                                i, m, s, h, a, b, y, der)],
                 h, xh, sys, args, y, a, b)
    ELSE st

CorrectorPass_in_place(h, xh, sys, args, st, y, a, b) ==
    [InPlaceSweep(0, st, h, xh, sys, args, y, a, b)
        EXCEPT !.calls = Append(st.calls,
                   <<xh, [i \in 0 .. st.ws.system_size - 1 |-> st.ynext[i]]>>)]

\* one pass with the derivative at (x + h, ynext) stored over block 0 of
\* prev_der, the newest history entry, instead of block m
CorrectorPass_over_history(h, xh, sys, args, st, y, a, b) ==
    CorrectorSum(h, xh, st, y, a, b,
        CopyInto(CopyInto(st.ws.prev_der,
                          st.ws.ms_order * st.ws.system_size,
                          st.ws.system_size,
                          Yprime(sys, Inp(st.ws.system_size, xh, st.ynext,
                                          args))),
                 0, st.ws.system_size,
                 Yprime(sys, Inp(st.ws.system_size, xh, st.ynext, args))))

\* one pass of the while loop: the derivative at (x + h, ynext) goes to
\* block m of prev_der, then ynext is recomputed
CorrectorPass(h, xh, sys, args, st, y, a, b) ==
    CorrectorSum(h, xh, st, y, a, b,
        CopyInto(st.ws.prev_der, st.ws.ms_order * st.ws.system_size,
                 st.ws.system_size,
                 Yprime(sys, Inp(st.ws.system_size, xh, st.ynext, args))))

\* the while loop leaving after its first pass whatever iter is
ImplicitLoop_once(iter, st, h, xh, sys, args, y, a, b) ==
    IF iter > 0 THEN CorrectorPass(h, xh, sys, args, st, y, a, b) ELSE st

\* while (iter > 0) { ...; iter--; }
RECURSIVE ImplicitLoop(_, _, _, _, _, _, _, _, _)
ImplicitLoop(iter, st, h, xh, sys, args, y, a, b) ==
    IF iter > 0
    THEN ImplicitLoop(iter - 1,
                      CorrectorPass(h, xh, sys, args, st, y, a, b),
                      h, xh, sys, args, y, a, b)
    ELSE st

\* the implicit branch evaluating the derivative at x instead of x + h
general_multistep_at_x(h, x, sys, args, ws, y, a, b, iter, ynext) ==
    IF iter = 0
    THEN [ws |-> ws, ynext |-> ExplicitScheme(h, ws, y, a, b), calls |-> << >>,
          y |-> y]
    ELSE ImplicitLoop(iter,
                      [ws |-> ws, ynext |-> ynext, calls |-> << >>, y |-> y],
                      h, x, sys, args, y, a, b)

\* real_general_multistep(h, x, yprime, args, ws, y, a, b, iter, ynext):
\* the result is [ws, ynext, calls, y], the buffers as the call leaves them
real_general_multistep(h, x, sys, args, ws, y, a, b, iter, ynext) ==
    IF iter = 0
    THEN [ws |-> ws, ynext |-> ExplicitScheme(h, ws, y, a, b), calls |-> << >>,
          y |-> y]
    ELSE ImplicitLoop(iter,
                      [ws |-> ws, ynext |-> ynext, calls |-> << >>, y |-> y],
                      h, RAdd(x, h), sys, args, y, a, b)

\* the corrector half of a predictor-corrector step: p is what the
\* predictor call returned
AdamsCorrect(left, corr, h, x, sys, args, y, iter, p) ==
    IF iter = 0 THEN p
    ELSE [real_general_multistep(h, x, sys, args, p.ws, y,
                                 left, corr, iter, p.ynext)
             EXCEPT !.calls = p.calls \o @]

\* the wiring with the corrector started from the buffer as the caller
\* passed it instead of the prediction
AdamsPC_stale(left, pred, corr, h, x, sys, args, ws, y, iter, ynext) ==
    IF iter = 0
    THEN real_general_multistep(h, x, sys, args, ws, y, left, pred, 0, ynext)
    ELSE real_general_multistep(h, x, sys, args, ws, y, left, corr, iter,
                                ynext)

\* the predictor-corrector wiring shared by real_adams4pc and real_adams6pc
AdamsPC(left, pred, corr, h, x, sys, args, ws, y, iter, ynext) ==
    AdamsCorrect(left, corr, h, x, sys, args, y, iter,
        real_general_multistep(h, x, sys, args, ws, y, left, pred, 0, ynext))

real_adams4pc(h, x, sys, args, ws, y, iter, ynext) ==
    AdamsPC(ADAMS4_LEFT, ADAMS4_PRED, ADAMS4_CORR,
            h, x, sys, args, ws, y, iter, ynext)

real_adams6pc(h, x, sys, args, ws, y, iter, ynext) ==
    AdamsPC(ADAMS6_LEFT, ADAMS6_PRED, ADAMS6_CORR,
            h, x, sys, args, ws, y, iter, ynext)

(***************************************************************************)
(* Cells the multistep routines touch, as the index expressions of their   *)
(* loops give them, for a workspace of order m and system size s.          *)
(***************************************************************************)
\* init_real_multistep: blocks j = (m - 1 - i) * s, i = 0 .. m - 1, of
\* yms_init and of prev_der
init_indices(ws) ==
    {InitBlock(i, ws) + k : i \in 0 .. ws.ms_order - 1,
                            k \in 0 .. ws.system_size - 1}

\* real_set_next_multistep: i + j*s and i + (j-1)*s for j = m-1 .. 1 in the
\* shift, then cells 0 .. s-1 of y and of der
set_next_indices(m, s) ==
    UNION {{i + j * s, i + (j - 1) * s} : i \in 0 .. s - 1, j \in 1 .. m - 1}
    \cup 0 .. s - 1

\* real_general_multistep, either branch: stride = i + (j-1)*s for
\* j = 1 .. m, in y and in der
history_indices(m, s) ==
    {Stride(i, j, s) : i \in 0 .. s - 1, j \in 1 .. m}

\* real_general_multistep, implicit branch: der[i + m*s] besides
scratch_indices(m, s) == {i + m * s : i \in 0 .. s - 1}

(***************************************************************************)
(* Heap traffic.  A routine's heap script is the sequence of malloc and    *)
(* free statements it executes, in order; a block is named by the          *)
(* workspace that owns it and the field that points to it.  A malloc is    *)
(* checked when the code tests its result against NULL and exits.          *)
(***************************************************************************)
Malloc(block, checked) == [k |-> "malloc", block |-> block, checked |-> checked]

Free(block) == [k |-> "free", block |-> block]

\* a malloc whose result is used untested
alloc_rarr_unchecked(block) == <<Malloc(block, FALSE)>>

\* alloc_rarr: malloc, and exit(EXIT_FAILURE) on NULL
alloc_rarr_heap(block) == <<Malloc(block, TRUE)>>

WorkFields == <<"work1", "work2", "work3", "work4", "work5", "work6", "work7">>

RECURSIVE AllocFields(_, _, _)
AllocFields(owner, fields, i) ==
    IF i > Len(fields) THEN << >>
    ELSE alloc_rarr_heap(<<owner, fields[i]>>) \o AllocFields(owner, fields, i + 1)

alloc_real_rungekutta_wsarrays_heap(owner) == AllocFields(owner, WorkFields, 1)

free_real_rungekutta_wsarrays_heap(owner) ==
    [i \in 1 .. Len(WorkFields) |-> Free(<<owner, WorkFields[i]>>)]

get_real_rungekutta_ws_heap(owner) ==
    <<Malloc(<<owner, "struct">>, TRUE)>>
    \o alloc_real_rungekutta_wsarrays_heap(owner)

destroy_real_rungekutta_ws_heap(owner) ==
    free_real_rungekutta_wsarrays_heap(owner) \o <<Free(<<owner, "struct">>)>>

alloc_real_multistep_wsarray_heap(owner) ==
    alloc_rarr_heap(<<owner, "prev_der">>)

get_real_multistep_ws_heap(owner) ==
    <<Malloc(<<owner, "struct">>, TRUE)>>
    \o alloc_real_multistep_wsarray_heap(owner)

destroy_real_multistep_ws_heap(owner) ==
    <<Free(<<owner, "prev_der">>), Free(<<owner, "struct">>)>>

\* a stepping routine that takes a scratch vector per call and gives it back
step_heap_scratch ==
    <<Malloc(<<"step", "scratch">>, TRUE), Free(<<"step", "scratch">>)>>

\* real_rungekutta2/4/5: every buffer comes from the workspace
rungekutta_step_heap == << >>

\* real_general_multistep, real_adams4pc, real_adams6pc,
\* real_set_next_multistep: every buffer is the workspace's or the caller's
multistep_step_heap == << >>

\* a stepping routine that takes a single step from (xx, y) on its way
step_steppers_restart(xx, y) == << <<xx, y>> >>

\* the single steps real_general_multistep, real_adams4pc, real_adams6pc
\* and real_set_next_multistep take when called at grid point xx with
\* history y: none (they have no stepper parameter and call none)
multistep_step_steppers(xx, y) == << >>

RECURSIVE Repeat(_, _)
Repeat(script, n) == IF n <= 0 THEN << >> ELSE script \o Repeat(script, n - 1)

\* init_real_multistep returning with its Runge-Kutta workspace still
\* allocated and ywork freed twice
init_real_multistep_heap_unbalanced(ms_order) ==
    alloc_rarr_heap(<<"init", "ywork">>)
    \o get_real_rungekutta_ws_heap("init")
    \o <<Free(<<"init", "ywork">>), Free(<<"init", "ywork">>)>>

\* init_real_multistep: ywork and a Runge-Kutta workspace of its own, both
\* given back before it returns
init_real_multistep_heap(ms_order) ==
    alloc_rarr_heap(<<"init", "ywork">>)
    \o get_real_rungekutta_ws_heap("init")
    \o Repeat(rungekutta_step_heap, ms_order - 1)
    \o <<Free(<<"init", "ywork">>)>>
    \o destroy_real_rungekutta_ws_heap("init")

\* number of malloc statements of a script
Mallocs(script) == Cardinality({i \in 1 .. Len(script) : script[i].k = "malloc"})

\* Running a script from the live set `live`, the fail-th malloc (0: none)
\* returning NULL.  st is [live, log, status, n]: the live blocks, the heap
\* events so far as [k, block, ok], "exit" once exit(EXIT_FAILURE) was
\* called, and the number of mallocs so far.
RECURSIVE HeapFold(_, _, _, _)
HeapFold(script, i, fail, st) ==
    IF i > Len(script) \/ st.status = "exit" THEN st
    ELSE IF script[i].k = "free"
    THEN HeapFold(script, i + 1, fail,
                  [st EXCEPT !.live = @ \ {script[i].block},
                             !.log = Append(@, [k |-> "free",
                                                block |-> script[i].block,
                                                ok |-> TRUE])])
    ELSE IF st.n + 1 = fail
    THEN HeapFold(script, i + 1, fail,
                  [st EXCEPT !.n = @ + 1,
                             !.log = Append(@, [k |-> "malloc",
                                                block |-> script[i].block,
                                                ok |-> FALSE]),
                             !.status = IF script[i].checked
                                        THEN "exit" ELSE @])
    ELSE HeapFold(script, i + 1, fail,
                  [st EXCEPT !.n = @ + 1,
                             !.live = @ \cup {script[i].block},
                             !.log = Append(@, [k |-> "malloc",
                                                block |-> script[i].block,
                                                ok |-> TRUE])])

RunHeap(script, live, fail) ==
    HeapFold(script, 1, fail,
             [live |-> live, log |-> << >>, status |-> "ok", n |-> 0])

(***************************************************************************)
(* Cells read and written by the multistep routines, in order.  A cell is  *)
(* <<buffer, index>>, the buffer being "y" (the state history), "der"      *)
(* (ws->prev_der) or "ynext"; a routine is a sequence of stages, each the  *)
(* cells it reads and then the cells it writes.                            *)
(***************************************************************************)
BlockCells(buf, offset, s) == {<<buf, offset + i>> : i \in 0 .. s - 1}

Stage(reads, writes) == [reads |-> reads, writes |-> writes]

\* init_real_multistep: the state of grid point i goes to its block of
\* yms_init (from ywork for i = 0, from the stepper after), is copied back
\* to ywork, and the derivative at ywork goes to the same block of prev_der
RECURSIVE init_real_multistep_cells(_, _)
init_real_multistep_cells(i, ws) ==
    IF i < ws.ms_order
    THEN <<Stage({}, BlockCells("y", InitBlock(i, ws), ws.system_size)),
           Stage(IF i = 0 THEN {}
                 ELSE BlockCells("y", InitBlock(i, ws), ws.system_size),
                 BlockCells("der", InitBlock(i, ws), ws.system_size))>>
         \o init_real_multistep_cells(i + 1, ws)
    ELSE << >>

\* real_set_next_multistep: the shift, block by block from the oldest,
\* then rarr_copy_values(s, ynext, y) and yprime(&sys_params, der), buf
\* being the cells of the buffer passed as ynext
RECURSIVE shift_cells(_, _)
shift_cells(j, s) ==
    IF j > 0
    THEN <<Stage(BlockCells("y", (j - 1) * s, s) \cup BlockCells("der", (j - 1) * s, s),
                 BlockCells("y", j * s, s) \cup BlockCells("der", j * s, s))>>
         \o shift_cells(j - 1, s)
    ELSE << >>

set_next_multistep_cells(m, s, buf) ==
    shift_cells(m - 1, s)
    \o <<Stage(buf, BlockCells("y", 0, s)), Stage(buf, BlockCells("der", 0, s))>>

\* the sums of real_general_multistep, explicit branch
explicit_cells(m, s) ==
    <<Stage({<<"y", k>> : k \in history_indices(m, s)}
            \cup {<<"der", k>> : k \in history_indices(m, s)},
            BlockCells("ynext", 0, s))>>

\* a corrector pass that sums without evaluating the derivative first
corrector_pass_cells_unevaluated(m, s) ==
    <<Stage({<<"y", k>> : k \in history_indices(m, s)}
            \cup {<<"der", k>> : k \in history_indices(m, s) \cup scratch_indices(m, s)},
            BlockCells("ynext", 0, s))>>

\* one pass of the implicit branch: yprime(&sys_params, &der[m * s]) with
\* sys_params.y = ynext, then the sums
corrector_pass_cells(m, s) ==
    <<Stage(BlockCells("ynext", 0, s),
            {<<"der", k>> : k \in scratch_indices(m, s)}),
      Stage({<<"y", k>> : k \in history_indices(m, s)}
            \cup {<<"der", k>> : k \in history_indices(m, s) \cup scratch_indices(m, s)},
            BlockCells("ynext", 0, s))>>

general_multistep_cells(m, s, iter) ==
    IF iter = 0 THEN explicit_cells(m, s)
    ELSE Repeat(corrector_pass_cells(m, s), iter)

\* real_adams4pc, real_adams6pc: the explicit call, then the implicit one
adamspc_cells(m, s, iter) ==
    explicit_cells(m, s) \o Repeat(corrector_pass_cells(m, s), iter)

\* the cells written once the stages have run from the written set w, and
\* the cells some stage read before anything wrote them
RECURSIVE WrittenAfter(_, _, _)
WrittenAfter(stages, k, w) ==
    IF k > Len(stages) THEN w
    ELSE WrittenAfter(stages, k + 1, w \cup stages[k].writes)

RECURSIVE ReadUnwritten(_, _, _)
ReadUnwritten(stages, k, w) ==
    IF k > Len(stages) THEN {}
    ELSE (stages[k].reads \ w)
         \cup ReadUnwritten(stages, k + 1, w \cup stages[k].writes)

\* get_real_multistep_ws(ms_order, sys_size): the struct with its two
\* fields set from the parameters in this order, and the derivative buffer
get_real_multistep_ws(ms_order, sys_size, g) ==
    alloc_real_multistep_wsarray(ms_order, sys_size, g)

(***************************************************************************)
(* The caller: one integration run driving one multistep workspace, as the *)
(* demo programs do (src/apps): bootstrap, then predict, correct any       *)
(* number of times, roll the history, and again.                           *)
(***************************************************************************)
VARIABLES
    ws,       \* the multistep workspace [ms_order, system_size, prev_der]
    yms,      \* the caller's concatenated state history, ms_order blocks
    ynext,    \* the caller's next-state buffer
    h,        \* grid step
    sys,      \* the derivative callback
    args,     \* its extra_args
    x,        \* the caller's current grid point
    phase,    \* "start": no workspace yet; "uninit": no history; "ready":
              \* history set, no step computed from it yet; "stepped": ynext
              \* holds a step from the history; "single": a run that uses the
              \* single-step engine alone; "done": workspace destroyed;
              \* "exited": the process called exit(EXIT_FAILURE)
    nrolls,   \* number of steps accepted so far (history rolls)
    op,       \* the library call that just returned, with its arguments
    calls,    \* derivative calls that call made itself, as <<x, state>>
    steps,    \* single steps that call took, as <<x, state>>
    traj,     \* states accepted so far, oldest first (grid points 0, h, ..)
    sync,     \* every roll so far was given the grid point x + h
    wsrk,     \* the Runge-Kutta workspace of a single-step run
    yrk,      \* the state vector of a single-step run
    heap,     \* the live heap blocks
    allocs,   \* heap events of the call in op, as [k, block, ok]
    written,  \* cells of the history, prev_der and ynext written since the
              \* multistep workspace was made
    par       \* two runs side by side: their buffers, the library's static
              \* tables, the automatic variables of the routines and each
              \* run's position in its call

vars == <<ws, yms, ynext, h, sys, args, x, phase, nrolls, op, calls, steps,
          traj, sync, wsrk, yrk, heap, allocs, written, par>>

\* the variables of a single run
seqvars == <<ws, yms, ynext, h, sys, args, x, phase, nrolls, op, calls, steps,
             traj, sync, wsrk, yrk, heap, allocs, written>>

\* a program with one run at a time
NoPar == << >>

\* multistep orders of the runs: Euler (quinney_examples.c), two-step
\* (quinney_corrector_iteration.c), Adams 4 and 6 (methods_comparison.c)
Orders == {1, 2, 4, 6}

\* the systems integrated, with extra_args and grid step (the sign of the
\* step gives the direction of integration)
Runs ==
    {[sys |-> "zero",  args |-> 1, h |-> R(1)],
     [sys |-> "zero",  args |-> 2, h |-> Q(-1, 2)],
     [sys |-> "coupled", args |-> 1, h |-> R(1)],
     [sys |-> "coupled", args |-> 2, h |-> Q(-1, 2)]}

\* the systems a single-step run integrates
RunsRK ==
    Runs \cup {[sys |-> "const", args |-> 2, h |-> Q(-1, 2)]}

\* what a cell holds that was never written
Garbage == {Q(-3, 2)}

\* initial condition of a run of system size s
Y0(s) == [i \in 0 .. s - 1 |-> R(i + 1)]

NoTable == << >>

Call(name, iter, a, b, arg) ==
    [name |-> name, iter |-> iter, a |-> a, b |-> b, arg |-> arg]

\* no call has returned since the caller last went on
Idle == Call("", 0, NoTable, NoTable, "")

\* a run of the multistep engine (methods_comparison.c) has no single-step
\* workspace of its own, a single-step run (test.c) no multistep workspace
NoWsMS == [ms_order |-> 0, system_size |-> 0, prev_der |-> << >>]

NoWsRK == get_real_rungekutta_ws(0, Zero)

Init ==
    /\ \E r \in RunsRK : sys = r.sys /\ args = r.args /\ h = r.h
    /\ ws = NoWsMS
    /\ yms = << >>
    /\ wsrk = NoWsRK
    /\ yrk = << >>
    /\ ynext = << >>
    /\ phase = "start"
    /\ x = Zero
    /\ nrolls = 0
    /\ op = Idle
    /\ calls = << >>
    /\ steps = << >>
    /\ traj = << >>
    /\ sync = FALSE
    /\ heap = {}
    /\ allocs = << >>
    /\ written = {}
    /\ par = NoPar

\* a checked malloc of the call returned NULL: exit(EXIT_FAILURE) ends the
\* process before the routine wrote anything, and nothing is returned
Exit(hr, routine) ==
    /\ phase' = "exited"
    /\ heap' = {}
    /\ allocs' = hr.log
    /\ op' = Call("exit", 0, NoTable, NoTable, routine)
    /\ UNCHANGED <<ws, yms, ynext, h, sys, args, x, nrolls, calls, steps, traj,
                   sync, wsrk, yrk, written, par>>

\* the cells written once a call of the given stages has returned
Written(stages) == written' = WrittenAfter(stages, 1, written)

\* the heap after a call that returned, and the events it made
HeapReturn(hr) ==
    /\ heap' = hr.live
    /\ allocs' = hr.log

\* ws = get_real_multistep_ws(p1, p2), with room for the history and the
\* next state in the caller's frame; hr is the run of the heap script
NewMultistepWs(p1, p2, hr) ==
    IF hr.status = "exit" THEN Exit(hr, "get_real_multistep_ws")
    ELSE /\ \E g \in Garbage :
               /\ ws' = get_real_multistep_ws(p1, p2, g)
               /\ yms' = [k \in 0 .. ws'.ms_order * ws'.system_size - 1 |-> g]
               /\ ynext' = [i \in 0 .. ws'.system_size - 1 |-> g]
         /\ HeapReturn(hr)
         /\ phase' = "uninit"
         /\ op' = Call("get_real_multistep_ws", 0, NoTable, NoTable, <<p1, p2>>)
         /\ written' = {}
         /\ UNCHANGED <<h, sys, args, x, nrolls, calls, steps, traj, sync, wsrk,
                        yrk, par>>

GetMultistepWs(p1, p2, fail) ==
    /\ op = Idle
    /\ phase = "start"
    /\ [sys |-> sys, args |-> args, h |-> h] \in Runs
    /\ NewMultistepWs(p1, p2, RunHeap(get_real_multistep_ws_heap("ws"), heap, fail))

\* wsrk = get_real_rungekutta_ws(s) of a single-step run, with the initial
\* condition and room for the next state in the caller's frame
NewRungekuttaWs(s, hr) ==
    IF hr.status = "exit" THEN Exit(hr, "get_real_rungekutta_ws")
    ELSE /\ \E g \in Garbage :
               /\ wsrk' = get_real_rungekutta_ws(s, g)
               /\ ynext' = [i \in 0 .. s - 1 |-> g]
         /\ yrk' = Y0(s)
         /\ HeapReturn(hr)
         /\ phase' = "single"
         /\ op' = Call("get_real_rungekutta_ws", 0, NoTable, NoTable, <<s>>)
         /\ UNCHANGED <<ws, yms, h, sys, args, x, nrolls, calls, steps, traj,
                        sync, written, par>>

GetRungekuttaWs(s, fail) ==
    /\ op = Idle
    /\ phase = "start"
    /\ NewRungekuttaWs(s, RunHeap(get_real_rungekutta_ws_heap("wsrk"), heap, fail))

\* what a call to init_real_multistep leaves to the caller: r is the state
\* of the routine at its end
BootstrapReturn(r) ==
    /\ yms' = r.yms_init
    /\ ws' = [ws EXCEPT !.prev_der = r.prev_der]
    /\ calls' = r.calls
    /\ steps' = r.steps
    /\ traj' = [k \in 1 .. ws.ms_order |->
                  Slice(r.yms_init, (ws.ms_order - k) * ws.system_size,
                        ws.system_size)]

\* init_real_multistep(h, &sys_der, args, &ws, y0, rk, yms); the caller
\* continues from grid point (ms_order - 1) * h
BootstrapOutcome(rk, hr) ==
    IF hr.status = "exit" THEN Exit(hr, "init_real_multistep")
    ELSE /\ \E g \in Garbage :
               BootstrapReturn(init_real_multistep(h, sys, args, ws,
                                                   Y0(ws.system_size), rk, yms,
                                                   g))
         /\ HeapReturn(hr)
         /\ x' = RMul(R(ws.ms_order - 1), h)
         /\ phase' = "ready"
         /\ sync' = TRUE
         /\ op' = Call("init", 0, NoTable, NoTable, rk)
         /\ Written(init_real_multistep_cells(0, ws))
         /\ UNCHANGED <<ynext, h, sys, args, nrolls, wsrk, yrk, par>>

Bootstrap(rk, fail) ==
    /\ op = Idle
    /\ phase = "uninit"
    /\ BootstrapOutcome(rk, RunHeap(init_real_multistep_heap(ws.ms_order),
                                    heap, fail))

\* coefficient arrays a caller builds for order m; slot 0 as given, or as
\* the method says when a0, b0 are << >>
TableOf(kind, m, a0, b0) ==
    LET a == IF m = 1 THEN Tab(<<1, -1>>, 1)
             ELSE IF m = 2 THEN Tab(<<1, -1, 0>>, 1)
             ELSE IF m = 4 THEN ADAMS4_LEFT ELSE ADAMS6_LEFT
        b == IF kind = "pred"
             THEN IF m = 1 THEN Tab(<<0, 1>>, 1)
                  ELSE IF m = 2 THEN Tab(<<0, 3, -1>>, 2)
                  ELSE IF m = 4 THEN ADAMS4_PRED ELSE ADAMS6_PRED
             ELSE IF m = 1 THEN Tab(<<1, 1>>, 2)
                  ELSE IF m = 2 THEN Tab(<<1, 1, 0>>, 2)
                  ELSE IF m = 4 THEN ADAMS4_CORR ELSE ADAMS6_CORR
    IN  [a |-> [a EXCEPT ![0] = IF a0 = << >> THEN @ ELSE a0],
         b |-> [b EXCEPT ![0] = IF b0 = << >> THEN @ ELSE b0]]

\* tables passed with iter = 0: the predictor set, slot 0 set or left unset
\* (quinney_corrector_iteration.c sets neither a[0] nor the predictor's b[0])
ExplicitTables(m) ==
    {TableOf("pred", m, << >>, << >>)}
    \cup {TableOf("pred", m, g, g) : g \in Garbage}

\* tables passed with iter > 0: the corrector set, a[0] set or left unset,
\* and the predictor set (b[0] = 0)
ImplicitTables(m) ==
    {TableOf("corr", m, << >>, << >>), TableOf("pred", m, << >>, << >>)}
    \cup {TableOf("corr", m, g, << >>) : g \in Garbage}

\* what a stepping call of the multistep engine leaves to the caller: r is
\* [ws, ynext, calls, y]
StepReturn(r) ==
    /\ ws' = r.ws
    /\ yms' = r.y
    /\ ynext' = r.ynext
    /\ calls' = r.calls
    /\ steps' = multistep_step_steppers(x, yms)
    /\ phase' = "stepped"
    /\ HeapReturn(RunHeap(multistep_step_heap, heap, 0))
    /\ UNCHANGED <<h, sys, args, x, nrolls, traj, sync, wsrk, yrk, par>>

\* real_general_multistep(h, x, &sys_der, args, &ws, yms, a, b, iter, ynext)
General(t, iter) ==
    /\ op = Idle
    /\ IF iter = 0 THEN phase \in {"ready", "stepped"} ELSE phase = "stepped"
    /\ StepReturn(real_general_multistep(h, x, sys, args, ws, yms, t.a, t.b,
                                         iter, ynext))
    /\ op' = Call("general", iter, t.a, t.b, "")
    /\ Written(general_multistep_cells(ws.ms_order, ws.system_size, iter))

\* real_adams4pc(h, x, &sys_der, args, &ws, yms, iter, ynext)
Adams4(iter) ==
    /\ op = Idle
    /\ phase \in {"ready", "stepped"}
    /\ ws.ms_order = 4
    /\ StepReturn(real_adams4pc(h, x, sys, args, ws, yms, iter, ynext))
    /\ op' = Call("adams4pc", iter, NoTable, NoTable, "")
    /\ Written(adamspc_cells(ws.ms_order, ws.system_size, iter))

\* real_adams6pc(h, x, &sys_der, args, &ws, yms, iter, ynext)
Adams6(iter) ==
    /\ op = Idle
    /\ phase \in {"ready", "stepped"}
    /\ ws.ms_order = 6
    /\ StepReturn(real_adams6pc(h, x, sys, args, ws, yms, iter, ynext))
    /\ op' = Call("adams6pc", iter, NoTable, NoTable, "")
    /\ Written(adamspc_cells(ws.ms_order, ws.system_size, iter))

\* what a call to real_set_next_multistep leaves to the caller
SetNextReturn(r) ==
    /\ yms' = r.y
    /\ ws' = [ws EXCEPT !.prev_der = r.prev_der]
    /\ calls' = r.calls

\* the grid point and the buffer a caller passes to real_set_next_multistep
XNext(how) == IF how = "ynext" THEN RAdd(x, h) ELSE x

Buf(how) == IF how = "ynext" THEN ynext ELSE Slice(yms, 0, ws.system_size)

BufCells(how) ==
    BlockCells(IF how = "ynext" THEN "ynext" ELSE "y", 0, ws.system_size)

\* real_set_next_multistep(xnext, &sys_der, args, &ws, yms, buf): the
\* caller hands over the step just computed, at the next grid point
\* ("ynext"), or the newest history entry once more, at the current grid
\* point ("again")
SetNext(how) ==
    /\ op = Idle
    /\ IF how = "ynext" THEN phase = "stepped" ELSE phase = "ready"
    /\ nrolls < MaxSteps
    /\ SetNextReturn(real_set_next_multistep(XNext(how), sys, args, ws, yms,
                                             Buf(how)))
    /\ x' = XNext(how)
    /\ traj' = Append(traj, Buf(how))
    /\ steps' = multistep_step_steppers(XNext(how), yms)
    /\ nrolls' = nrolls + 1
    /\ phase' = "ready"
    /\ sync' = (sync /\ how = "ynext")
    /\ op' = Call("set_next", 0, NoTable, NoTable, how)
    /\ Written(set_next_multistep_cells(ws.ms_order, ws.system_size,
                                        BufCells(how)))
    /\ HeapReturn(RunHeap(multistep_step_heap, heap, 0))
    /\ UNCHANGED <<ynext, h, sys, args, wsrk, yrk, par>>

\* what a single-step call leaves to the caller
RKReturn(r) ==
    /\ ynext' = r.ynext
    /\ wsrk' = r.ws
    /\ yrk' = r.y
    /\ calls' = r.calls

\* (*rk)(h, x, &sys_der, args, &wsrk, yrk, ynext) in a single-step run
RKStep(rk) ==
    /\ op = Idle
    /\ phase = "single"
    /\ nrolls < MaxSteps
    /\ RKReturn(CallRK(rk, h, x, sys, args, wsrk, yrk))
    /\ steps' = << >>
    /\ op' = Call("rk", 0, NoTable, NoTable, rk)
    /\ HeapReturn(RunHeap(rungekutta_step_heap, heap, 0))
    /\ UNCHANGED <<ws, yms, h, sys, args, x, phase, nrolls, traj, sync,
                   written, par>>

\* rarr_copy_values(system_size, ynext, yrk): the caller of a single-step
\* run takes the step and moves to the next grid point
RKAccept ==
    /\ op.name = "rk"
    /\ yrk' = ynext
    /\ x' = RAdd(x, h)
    /\ nrolls' = nrolls + 1
    /\ op' = Idle
    /\ calls' = << >>
    /\ steps' = << >>
    /\ allocs' = << >>
    /\ UNCHANGED <<ws, yms, ynext, h, sys, args, phase, traj, sync, wsrk,
                   heap, written, par>>

\* the caller of a multistep run takes the result and goes on
Resume ==
    /\ op # Idle
    /\ op.name \notin {"rk", "exit"}
    /\ op' = Idle
    /\ calls' = << >>
    /\ steps' = << >>
    /\ allocs' = << >>
    /\ UNCHANGED <<ws, yms, ynext, h, sys, args, x, phase, nrolls, traj, sync,
                   wsrk, yrk, heap, written, par>>

\* destroy_real_multistep_ws(ws), destroy_real_rungekutta_ws(wsrk): the
\* caller gives the workspace back when its run is over
Destroy ==
    /\ op = Idle
    /\ phase \in {"ready", "stepped", "single"}
    /\ nrolls = MaxSteps
    /\ HeapReturn(RunHeap(IF phase = "single"
                          THEN destroy_real_rungekutta_ws_heap("wsrk")
                          ELSE destroy_real_multistep_ws_heap("ws"),
                          heap, 0))
    /\ phase' = "done"
    /\ op' = Call(IF phase = "single" THEN "destroy_real_rungekutta_ws"
                  ELSE "destroy_real_multistep_ws",
                  0, NoTable, NoTable, "")
    /\ UNCHANGED <<ws, yms, ynext, h, sys, args, x, nrolls, calls, steps, traj,
                   sync, wsrk, yrk, written, par>>

Next ==
    \/ \E p1 \in Orders, p2 \in 1 .. MaxSize,
          fail \in 0 .. Mallocs(get_real_multistep_ws_heap("ws")) :
          GetMultistepWs(p1, p2, fail)
    \/ \E s \in 1 .. MaxSize,
          fail \in 0 .. Mallocs(get_real_rungekutta_ws_heap("wsrk")) :
          GetRungekuttaWs(s, fail)
    \/ \E rk \in RKRoutines,
          fail \in 0 .. Mallocs(init_real_multistep_heap(ws.ms_order)) :
          Bootstrap(rk, fail)
    \/ \E t \in ExplicitTables(ws.ms_order) : General(t, 0)
    \/ \E t \in ImplicitTables(ws.ms_order), iter \in 1 .. MaxIter :
          General(t, iter)
    \/ \E iter \in 0 .. MaxIter : Adams4(iter)
    \/ \E iter \in 0 .. MaxIter : Adams6(iter)
    \/ \E how \in {"ynext", "again"} : SetNext(how)
    \/ \E rk \in RKRoutines : RKStep(rk)
    \/ RKAccept
    \/ Resume
    \/ Destroy

Spec == Init /\ [][Next]_vars

(***************************************************************************)
(* The corrector-iteration program: y' = y^2, order 2, history seeded by   *)
(* hand, one predictor call and corrector calls on the same grid point     *)
(***************************************************************************)
\* grid steps of the program: its default 0.1, and two steps given on the
\* command line (any step up to 0.5 is accepted)
QuinneySteps == {Q(1, 10), Q(1, 20), Q(1, 5)}

QuinneyInit ==
    /\ sys = "square"
    /\ args = 0
    /\ h \in QuinneySteps
    /\ ws = NoWsMS
    /\ yms = << >>
    /\ wsrk = NoWsRK
    /\ yrk = << >>
    /\ ynext = << >>
    /\ phase = "start"
    /\ x = Zero
    /\ nrolls = 0
    /\ op = Idle
    /\ calls = << >>
    /\ steps = << >>
    /\ traj = << >>
    /\ sync = FALSE
    /\ heap = {}
    /\ allocs = << >>
    /\ written = {}
    /\ par = NoPar

\* wsms.ms_order = 2; wsms.system_size = 1; alloc_real_multistep_array(&wsms)
\* on a workspace struct in the caller's frame
QuinneyArrays(hr) ==
    IF hr.status = "exit" THEN Exit(hr, "alloc_real_multistep_array")
    ELSE /\ \E g \in Garbage :
               /\ ws' = alloc_real_multistep_wsarray(2, 1, g)
               /\ yms' = [k \in 0 .. 1 |-> g]
               /\ ynext' = [i \in 0 .. 0 |-> g]
         /\ HeapReturn(hr)
         /\ phase' = "uninit"
         /\ op' = Call("alloc_real_multistep_array", 0, NoTable, NoTable, <<2, 1>>)
         /\ written' = {}
         /\ UNCHANGED <<h, sys, args, x, nrolls, calls, steps, traj, sync, wsrk,
                        yrk, par>>

QuinneyAlloc(fail) ==
    /\ op = Idle
    /\ phase = "start"
    /\ sys = "square"
    /\ QuinneyArrays(RunHeap(alloc_real_multistep_wsarray_heap("ws"), heap, fail))

\* a seed whose two derivative blocks are exchanged
QuinneySeedFrom_exchanged(y0, y1) ==
    /\ yms' = [k \in 0 .. 1 |-> IF k = 0 THEN y1[0] ELSE y0[0]]
    /\ ws' = [ws EXCEPT !.prev_der =
                [k \in 0 .. 2 |->
                    IF k = 0 THEN Yprime(sys, Inp(1, Zero, y0, args))[0]
                    ELSE IF k = 1 THEN Yprime(sys, Inp(1, h, y1, args))[0]
                    ELSE @[k]]]
    /\ ynext' = y0
    /\ traj' = <<y0, y1>>

\* the exact seed: y0 = 1, y1 = 1 / (1 - h), yms = [y1, y0], the derivative
\* at (0, y0) into block 1 and at (h, y1) into block 0; the program passes
\* y0 as the next-state buffer and h as the grid point
QuinneySeedFrom(y0, y1) ==
    /\ yms' = [k \in 0 .. 1 |-> IF k = 0 THEN y1[0] ELSE y0[0]]
    /\ ws' = [ws EXCEPT !.prev_der =
                [k \in 0 .. 2 |->
                    IF k = 1 THEN Yprime(sys, Inp(1, Zero, y0, args))[0]
                    ELSE IF k = 0 THEN Yprime(sys, Inp(1, h, y1, args))[0]
                    ELSE @[k]]]
    /\ ynext' = y0
    /\ traj' = <<y0, y1>>

QuinneySeed ==
    /\ op = Idle
    /\ phase = "uninit"
    /\ sys = "square"
    /\ QuinneySeedFrom([i \in 0 .. 0 |-> R(1)],
                       [i \in 0 .. 0 |-> RDiv(R(1), RSub(R(1), h))])
    /\ x' = h
    /\ phase' = "ready"
    /\ sync' = TRUE
    /\ written' = BlockCells("y", 0, 2) \cup BlockCells("der", 0, 2)
                   \cup BlockCells("ynext", 0, 1)
    /\ UNCHANGED <<h, sys, args, nrolls, op, calls, steps, wsrk, yrk, heap,
                   allocs, par>>

\* free_real_multistep_array(&wsms) after the last corrector call
QuinneyFree ==
    /\ op = Idle
    /\ phase = "stepped"
    /\ sys = "square"
    /\ HeapReturn(RunHeap(<<Free(<<"ws", "prev_der">>)>>, heap, 0))
    /\ phase' = "done"
    /\ op' = Call("free_real_multistep_array", 0, NoTable, NoTable, "")
    /\ UNCHANGED <<ws, yms, ynext, h, sys, args, x, nrolls, calls, steps, traj,
                   sync, wsrk, yrk, written, par>>

QuinneyNext ==
    \/ \E fail \in 0 .. Mallocs(alloc_real_multistep_wsarray_heap("ws")) :
          QuinneyAlloc(fail)
    \/ QuinneySeed
    \/ \E t \in ExplicitTables(ws.ms_order) : General(t, 0)
    \/ \E t \in ImplicitTables(ws.ms_order), iter \in 1 .. MaxIter :
          General(t, iter)
    \/ Resume
    \/ QuinneyFree

SpecQuinney == QuinneyInit /\ [][QuinneyNext]_vars

(***************************************************************************)
(* Two runs side by side.  Each run owns a workspace, a state history and  *)
(* a next-state buffer, and calls real_adams4pc and then                   *)
(* real_set_next_multistep on them; the two calls advance one buffer read  *)
(* or one buffer write at a time, in any interleaving.  The routines       *)
(* share the static Adams tables.                                          *)
(***************************************************************************)
Threads == {1, 2}

\* the run of each thread: its system, step, system size and the number of
\* corrector passes it asks for
ParRun(t) ==
    IF t = 1
    THEN [sys |-> "coupled", args |-> 1, h |-> R(1), s |-> 1, iter |-> 1]
    ELSE [sys |-> "coupled", args |-> 2, h |-> Q(-1, 2), s |-> 2, iter |-> 1]

\* the grid point of the calls: the bootstrap of order 4 ends at 3 * h
ParX(t) == RMul(R(3), ParRun(t).h)

\* the buffers of a run when the calls start: the history the bootstrap
\* left, ynext never written
ParBoot(r, g) ==
    init_real_multistep(r.h, r.sys, r.args,
                        alloc_real_multistep_wsarray(4, r.s, g), Y0(r.s), "rk4",
                        [k \in 0 .. 4 * r.s - 1 |-> g], g)

ParBuffers(b, r, g) ==
    [y |-> b.yms_init, der |-> b.prev_der, ynext |-> [i \in 0 .. r.s - 1 |-> g]]

ParMem(t) == ParBuffers(ParBoot(ParRun(t), Q(-3, 2)), ParRun(t), Q(-3, 2))

\* an accumulator shared by all calls
SummCell_static(t) == <<"static", 0>>

\* double summ: an automatic variable, one to each call
SummCell(t) == <<"auto", t>>

\* one step of a routine: a read of a buffer cell or of a table entry into
\* a register (load), an update of summ (zero, first, acc), the write of
\* summ or of a register to a buffer cell (store, put), a read of the state
\* by the derivative function (arg) or its write of one derivative (der)
Load(reg, space, buf, idx) ==
    [op |-> "load", reg |-> reg, space |-> space, buf |-> buf, idx |-> idx, k |-> 0]

Do(what, buf, idx, k) ==
    [op |-> what, reg |-> "", space |-> "own", buf |-> buf, idx |-> idx, k |-> k]

\* for (j = 1; j <= m; j++) { stride = i + (j - 1) * s;
\*     summ = summ + h * b[j] * der[stride] - a[j] * y[stride]; }
RECURSIVE sum_code(_, _, _, _, _, _)
sum_code(j, i, m, s, left, coef) ==
    IF j <= m
    THEN <<Load("b", "static", coef, j), Load("d", "own", "der", Stride(i, j, s)),
           Load("a", "static", left, j), Load("y", "own", "y", Stride(i, j, s)),
           Do("acc", "", 0, 0)>>
         \o sum_code(j + 1, i, m, s, left, coef)
    ELSE << >>

\* the explicit branch: for (i = 0; i < s; i++) { summ = 0; ...; ynext[i] = summ; }
RECURSIVE explicit_code(_, _, _, _, _)
explicit_code(i, m, s, left, coef) ==
    IF i < s
    THEN <<Do("zero", "", 0, 0)>> \o sum_code(1, i, m, s, left, coef)
         \o <<Do("store", "ynext", i, 0)>> \o explicit_code(i + 1, m, s, left, coef)
    ELSE << >>

\* yprime(&sys_params, &der[off]) with sys_params.y = ynext: the function
\* reads the state, then writes the derivatives
RECURSIVE callback_code(_, _, _, _)
callback_code(what, k, s, off) ==
    IF k < s
    THEN <<Do(what, IF what = "arg" THEN "ynext" ELSE "der",
              IF what = "arg" THEN k ELSE off + k, k)>>
         \o callback_code(what, k + 1, s, off)
    ELSE << >>

\* the sums of a corrector pass: summ = h * b[0] * der[i + m * s]; ...
RECURSIVE implicit_code(_, _, _, _, _)
implicit_code(i, m, s, left, coef) ==
    IF i < s
    THEN <<Load("b", "static", coef, 0), Load("d", "own", "der", i + m * s),
           Do("first", "", 0, 0)>>
         \o sum_code(1, i, m, s, left, coef)
         \o <<Do("store", "ynext", i, 0)>> \o implicit_code(i + 1, m, s, left, coef)
    ELSE << >>

corrector_pass_code(m, s, left, coef) ==
    callback_code("arg", 0, s, 0) \o callback_code("der", 0, s, m * s)
    \o implicit_code(0, m, s, left, coef)

\* real_adams4pc(h, x, yprime, args, ws, y, iter, ynext)
real_adams4pc_code(s, iter) ==
    explicit_code(0, 4, s, "ADAMS4_LEFT", "ADAMS4_PRED")
    \o Repeat(corrector_pass_code(4, s, "ADAMS4_LEFT", "ADAMS4_CORR"), iter)

\* y[i + j * s] = y[i + (j - 1) * s]; der[i + j * s] = der[i + (j - 1) * s];
RECURSIVE shift_row_code(_, _, _)
shift_row_code(i, j, s) ==
    IF i < s
    THEN <<Load("t", "own", "y", i + (j - 1) * s), Do("put", "y", i + j * s, 0),
           Load("t", "own", "der", i + (j - 1) * s), Do("put", "der", i + j * s, 0)>>
         \o shift_row_code(i + 1, j, s)
    ELSE << >>

RECURSIVE shift_code(_, _)
shift_code(j, s) ==
    IF j > 0 THEN shift_row_code(0, j, s) \o shift_code(j - 1, s) ELSE << >>

\* rarr_copy_values(s, ynext, y)
RECURSIVE copy_code(_, _)
copy_code(i, s) ==
    IF i < s
    THEN <<Load("t", "own", "ynext", i), Do("put", "y", i, 0)>> \o copy_code(i + 1, s)
    ELSE << >>

\* real_set_next_multistep(xnext, yprime, args, ws, y, ynext)
real_set_next_multistep_code(m, s) ==
    shift_code(m - 1, s) \o copy_code(0, s)
    \o callback_code("arg", 0, s, 0) \o callback_code("der", 0, s, 0)

\* the calls of a run
ParProgram(t) ==
    real_adams4pc_code(ParRun(t).s, ParRun(t).iter)
    \o real_set_next_multistep_code(4, ParRun(t).s)

ParStart ==
    [mem     |-> [t \in Threads |-> ParMem(t)],
     statics |-> [ADAMS4_LEFT |-> ADAMS4_LEFT, ADAMS4_PRED |-> ADAMS4_PRED,
                  ADAMS4_CORR |-> ADAMS4_CORR],
     summ    |-> [c \in {SummCell(t) : t \in Threads} |-> Zero],
     thr     |-> [t \in Threads |->
                    [pc |-> 1,
                     r  |-> [g \in {"b", "d", "a", "y", "t"} |-> Zero],
                     sys_params |-> [k \in 0 .. ParRun(t).s - 1 |-> Zero]]]]

ParInit ==
    /\ par = ParStart
    /\ sys = "coupled"
    /\ args = 1
    /\ h = R(1)
    /\ ws = NoWsMS
    /\ yms = << >>
    /\ wsrk = NoWsRK
    /\ yrk = << >>
    /\ ynext = << >>
    /\ phase = "start"
    /\ x = Zero
    /\ nrolls = 0
    /\ op = Idle
    /\ calls = << >>
    /\ steps = << >>
    /\ traj = << >>
    /\ sync = FALSE
    /\ heap = {}
    /\ allocs = << >>
    /\ written = {}

\* the step thread t is at, if its calls have not returned yet
ParAt(t, ops) ==
    /\ par.thr[t].pc <= Len(ParProgram(t))
    /\ ParProgram(t)[par.thr[t].pc].op \in ops

ParValue(t, I) ==
    IF I.space = "static" THEN par.statics[I.buf][I.idx]
    ELSE par.mem[t][I.buf][I.idx]

\* summ after the update I, its operands in the registers r
ParSumm(I, hh, r, old) ==
    IF I.op = "zero" THEN Zero
    ELSE IF I.op = "first" THEN RMul(RMul(hh, r.b), r.d)
    ELSE RSub(RAdd(old, RMul(RMul(hh, r.b), r.d)), RMul(r.a, r.y))

\* one operand of an expression is read
ParLoad(t) ==
    /\ ParAt(t, {"load"})
    /\ par' = [par EXCEPT
                 !.thr[t].r[ParProgram(t)[par.thr[t].pc].reg] =
                     ParValue(t, ParProgram(t)[par.thr[t].pc]),
                 !.thr[t].pc = @ + 1]
    /\ UNCHANGED seqvars

\* summ is assigned
ParAcc(t) ==
    /\ ParAt(t, {"zero", "first", "acc"})
    /\ par' = [par EXCEPT
                 !.summ[SummCell(t)] =
                     ParSumm(ParProgram(t)[par.thr[t].pc], ParRun(t).h,
                             par.thr[t].r, @),
                 !.thr[t].pc = @ + 1]
    /\ UNCHANGED seqvars

\* ynext[i] = summ
ParStore(t) ==
    /\ ParAt(t, {"store"})
    /\ par' = [par EXCEPT
                 !.mem[t].ynext[ParProgram(t)[par.thr[t].pc].idx] =
                     par.summ[SummCell(t)],
                 !.thr[t].pc = @ + 1]
    /\ UNCHANGED seqvars

\* the value read is written to its cell of y or der
ParPut(t) ==
    /\ ParAt(t, {"put"})
    /\ par' = [par EXCEPT
                 !.mem[t][ParProgram(t)[par.thr[t].pc].buf]
                         [ParProgram(t)[par.thr[t].pc].idx] = par.thr[t].r.t,
                 !.thr[t].pc = @ + 1]
    /\ UNCHANGED seqvars

\* the derivative function reads one cell of the state it was handed
ParCallbackRead(t) ==
    /\ ParAt(t, {"arg"})
    /\ par' = [par EXCEPT
                 !.thr[t].sys_params[ParProgram(t)[par.thr[t].pc].idx] =
                     par.mem[t].ynext[ParProgram(t)[par.thr[t].pc].idx],
                 !.thr[t].pc = @ + 1]
    /\ UNCHANGED seqvars

\* the derivative function writes one derivative, at x + h
ParCallbackWrite(t) ==
    /\ ParAt(t, {"der"})
    /\ par' = [par EXCEPT
                 !.mem[t].der[ParProgram(t)[par.thr[t].pc].idx] =
                     Yprime(ParRun(t).sys,
                            Inp(ParRun(t).s, RAdd(ParX(t), ParRun(t).h),
                                par.thr[t].sys_params, ParRun(t).args))
                         [ParProgram(t)[par.thr[t].pc].k],
                 !.thr[t].pc = @ + 1]
    /\ UNCHANGED seqvars

ParNext ==
    \E t \in Threads :
        \/ ParLoad(t)
        \/ ParAcc(t)
        \/ ParStore(t)
        \/ ParPut(t)
        \/ ParCallbackRead(t)
        \/ ParCallbackWrite(t)

SpecPar == ParInit /\ [][ParNext]_vars

(***************************************************************************)
(* Vocabulary of the properties                                            *)
(***************************************************************************)
\* history block j of a concatenated buffer of the current workspace
Block(arr, j) == Slice(arr, j * ws.system_size, ws.system_size)

\* the derivative function of the run
F(xx, v) == Yprime(sys, Inp(ws.system_size, xx, v, args))

\* the sum over k = 1 .. j of h*b[k]*der block k-1 - a[k]*y block k-1,
\* component i, over the current history
RECURSIVE HistorySum(_, _, _, _)
HistorySum(j, i, a, b) ==
    IF j = 0 THEN Zero
    ELSE RAdd(HistorySum(j - 1, i, a, b),
              RSub(RMul(RMul(h, b[j]),
                        ws.prev_der[(j - 1) * ws.system_size + i]),
                   RMul(a[j], yms[(j - 1) * ws.system_size + i])))

\* the explicit multistep formula
ExplicitValue(a, b) ==
    [i \in 0 .. ws.system_size - 1 |-> HistorySum(ws.ms_order, i, a, b)]

\* the map v -> h*b[0]*f(x + h, v) + history sum
CorrectorMap(a, b, v) ==
    [i \in 0 .. ws.system_size - 1 |->
        RAdd(RMul(RMul(h, b[0]), F(RAdd(x, h), v)[i]),
             HistorySum(ws.ms_order, i, a, b))]

\* its k-fold application to v
RECURSIVE Iterate(_, _, _, _)
Iterate(k, a, b, v) ==
    IF k = 0 THEN v ELSE CorrectorMap(a, b, Iterate(k - 1, a, b, v))

\* the state after i successive single steps from y0 with the stepper the
\* bootstrap was given, the k-th step being taken from grid point (k-1)*h
RECURSIVE AfterSteps(_)
AfterSteps(i) ==
    IF i = 0 THEN Y0(ws.system_size)
    ELSE CallRK(op.arg, h, RMul(R(i - 1), h), sys, args,
                get_real_rungekutta_ws(ws.system_size, Zero),
                AfterSteps(i - 1)).ynext

\* values a coefficient slot or a buffer cell may hold
Scalars == {Zero, R(5)} \cup Garbage

\* other values <<a[0], b[0]>> to pass in a call with the given iter: any
\* a[0], and any b[0] when iter = 0
SlotZeroValues(iter, b0) ==
    IF iter = 0 THEN {<<R(5), Zero>>, <<Zero, R(5)>>}
    ELSE {<<R(5), b0>>}

(***************************************************************************)
(* Properties                                                              *)
(***************************************************************************)
\* C1: after the bootstrap and any number of accepted steps, each rolled
\* with xnext = x + h, state block j and derivative block j (0 <= j < m)
\* belong to grid point x - j*h: the state block is the state accepted at
\* that grid point, and the derivative block is f(x - j*h, state block j).
HistorySynchronised ==
    (phase \in {"ready", "stepped"} /\ sync) =>
        /\ x = RMul(R(Len(traj) - 1), h)
        /\ \A j \in 0 .. ws.ms_order - 1 :
              /\ Block(yms, j) = traj[Len(traj) - j]
              /\ Block(ws.prev_der, j)
                    = F(RSub(x, RMul(R(j), h)), Block(yms, j))

HistorySynchronisedWitness ==
    /\ phase = "stepped"
    /\ sync
    /\ nrolls >= 2
    /\ ws.ms_order = 4
    /\ ws.system_size = 2
    /\ sys = "coupled"
    /\ op.name = "general"
    /\ op.iter > 0

\* C2: set_next_multistep moves every block j-1 to block j (1 <= j < m) in
\* both buffers, puts the new state in state block 0 and f(xnext, new
\* state) in derivative block 0.
SetNextShifts ==
    [][op'.name = "set_next" =>
          /\ \A j \in 1 .. ws.ms_order - 1 :
                /\ Block(yms', j) = Block(yms, j - 1)
                /\ Block(ws'.prev_der, j) = Block(ws.prev_der, j - 1)
          /\ Block(yms', 0) = Buf(op'.arg)
          /\ Block(ws'.prev_der, 0) = F(XNext(op'.arg), Buf(op'.arg))
          /\ DOMAIN yms' = DOMAIN yms
          /\ DOMAIN ws'.prev_der = DOMAIN ws.prev_der]_vars

SetNextShiftsWitness ==
    /\ op.name = "set_next"
    /\ op.arg = "ynext"
    /\ ws.ms_order = 6
    /\ ws.system_size = 2
    /\ sys = "coupled"
    /\ nrolls = 2

\* C3: the bootstrap takes exactly m-1 single steps from y0; state block
\* m-1-i holds the state after i steps, derivative block m-1-i holds
\* f(i*h, that state), and the i-th step is taken from grid point (i-1)*h.
BootstrapFills ==
    op.name = "init" =>
        /\ Len(steps) = ws.ms_order - 1
        /\ \A i \in 0 .. ws.ms_order - 1 :
              /\ Block(yms, ws.ms_order - 1 - i) = AfterSteps(i)
              /\ Block(ws.prev_der, ws.ms_order - 1 - i)
                    = F(RMul(R(i), h), AfterSteps(i))
        /\ \A i \in 1 .. ws.ms_order - 1 :
              steps[i] = <<RMul(R(i - 1), h), AfterSteps(i - 1)>>

BootstrapFillsWitness ==
    /\ op.name = "init"
    /\ op.arg = "rk5"
    /\ ws.ms_order = 6
    /\ ws.system_size = 2
    /\ sys = "coupled"
    /\ Len(steps) = 5

\* C4: general_multistep with iter = 0 sets ynext to the explicit formula
\* over the history, calls the derivative function zero times, and gives
\* the same result whatever x, the derivative function, args and the old
\* content of ynext are.
ExplicitFormula ==
    [][(op'.name = "general" /\ op'.iter = 0) =>
          /\ ynext' = ExplicitValue(op'.a, op'.b)
          /\ calls' = << >>
          /\ \A g \in Scalars, sys2 \in Systems \ {sys} :
                real_general_multistep(h, RAdd(x, g), sys2, args + 1, ws, yms,
                    op'.a, op'.b, 0,
                    [i \in 0 .. ws.system_size - 1 |-> g]).ynext = ynext']_vars

ExplicitFormulaWitness ==
    /\ op.name = "general"
    /\ op.iter = 0
    /\ ws.ms_order = 4
    /\ ws.system_size = 2
    /\ sys = "coupled"
    /\ nrolls >= 1
    /\ calls = << >>

\* C5: general_multistep with iter = k > 0 returns the k-fold application,
\* starting from the incoming ynext, of v -> h*b[0]*f(x+h, v) + history
\* sum, each iterate being computed from the whole previous iterate.
CorrectorIterates ==
    [][(op'.name = "general" /\ op'.iter > 0) =>
          ynext' = Iterate(op'.iter, op'.a, op'.b, ynext)]_vars

CorrectorIteratesWitness ==
    /\ op.name = "general"
    /\ op.iter = 2
    /\ op.b[0] # Zero
    /\ ws.ms_order = 1
    /\ ws.system_size = 2
    /\ sys = "coupled"

\* C6: general_multistep with iter = k > 0 calls the derivative function
\* exactly k times, each time at grid point x + h with the current ynext,
\* and returns after the k-th recomputation.
CorrectorCalls ==
    [][(op'.name = "general" /\ op'.iter > 0) =>
          /\ Len(calls') = op'.iter
          /\ \A c \in 1 .. op'.iter :
                /\ calls'[c][1] = RAdd(x, h)
                /\ calls'[c][1] # x
                /\ calls'[c][2] = Iterate(c - 1, op'.a, op'.b, ynext)
          /\ ynext' = CorrectorMap(op'.a, op'.b, calls'[op'.iter][2])]_vars

CorrectorCallsWitness ==
    /\ op.name = "general"
    /\ op.iter = 2
    /\ Len(calls) = 2
    /\ ws.ms_order = 2
    /\ sys = "coupled"
    /\ nrolls >= 1

\* C7: general_multistep never reads a[0], and reads b[0] only when
\* iter > 0: with iter = 0 the outcome is the same for every a[0] and b[0],
\* with iter > 0 for every a[0].
SlotZeroUnread ==
    [][op'.name = "general" =>
          \A v \in SlotZeroValues(op'.iter, op'.b[0]) :
              LET r == real_general_multistep(h, x, sys, args, ws, yms,
                          [op'.a EXCEPT ![0] = v[1]],
                          [op'.b EXCEPT ![0] = v[2]],
                          op'.iter, ynext)
              IN  /\ r.ynext = ynext'
                  /\ r.ws = ws'
                  /\ r.calls = calls']_vars

SlotZeroUnreadWitness ==
    /\ op.name = "general"
    /\ op.iter = 0
    /\ op.a[0] \in Garbage
    /\ op.b[0] \in Garbage
    /\ ws.prev_der[ws.ms_order * ws.system_size] # Zero
    /\ sys = "coupled"

\* C8: adams4pc / adams6pc give what general_multistep gives with the
\* Adams-Bashforth table and iter = 0, followed when iter > 0 by
\* general_multistep with the Adams-Moulton table and the same iter on
\* that prediction; the wrapper makes exactly iter derivative calls and the
\* incoming content of ynext does not influence the result.
AdamsIsPredictCorrect ==
    [][op'.name \in {"adams4pc", "adams6pc"} =>
          LET ab == TableOf("pred", ws.ms_order, << >>, << >>)
              am == TableOf("corr", ws.ms_order, << >>, << >>)
              p  == real_general_multistep(h, x, sys, args, ws, yms,
                                           ab.a, ab.b, 0, ynext)
              r  == IF op'.iter = 0 THEN p
                    ELSE real_general_multistep(h, x, sys, args, p.ws, yms,
                                                am.a, am.b, op'.iter, p.ynext)
          IN  /\ ynext' = r.ynext
              /\ ws' = r.ws
              /\ Len(calls') = op'.iter
              /\ op'.iter = 0 => ynext' = ExplicitValue(ab.a, ab.b)
              /\ \A g \in Scalars :
                    LET other == [i \in 0 .. ws.system_size - 1 |-> g]
                    IN  IF op'.name = "adams4pc"
                        THEN real_adams4pc(h, x, sys, args, ws, yms,
                                           op'.iter, other).ynext = ynext'
                        ELSE real_adams6pc(h, x, sys, args, ws, yms,
                                           op'.iter, other).ynext = ynext'
         ]_vars

AdamsIsPredictCorrectWitness ==
    /\ op.name = "adams6pc"
    /\ op.iter = 2
    /\ Len(calls) = 2
    /\ ws.system_size = 2
    /\ sys = "coupled"
    /\ nrolls >= 1

\* C9: for the zero system every Runge-Kutta stepper returns ynext = y,
\* and after the bootstrap and any number of Adams steps of order 4 or 6
\* ynext and every state-history block equal y0.
ZeroSystemStays ==
    sys = "zero" =>
        /\ op.name = "rk" => ynext = yrk
        /\ phase = "single" => yrk = Y0(wsrk.system_size)
        /\ (ws.ms_order \in {4, 6} /\ phase \in {"ready", "stepped"}) =>
              /\ \A j \in 0 .. ws.ms_order - 1 :
                    Block(yms, j) = Y0(ws.system_size)
              /\ phase = "stepped" => ynext = Y0(ws.system_size)

ZeroSystemStaysWitness ==
    /\ sys = "zero"
    /\ op.name = "adams4pc"
    /\ op.iter > 0
    /\ nrolls >= 2
    /\ ws.system_size = 2
    /\ h # R(1)

\* C10: rolling the history with xnext = x and the newest state once more,
\* when derivative block 0 is f(x, state block 0), leaves state block 0
\* and derivative block 0 as they were, and for m >= 2 blocks 1 of both
\* buffers hold those same values.
RollIdempotent ==
    [][(/\ op'.name = "set_next"
        /\ op'.arg = "again"
        /\ Block(ws.prev_der, 0) = F(x, Block(yms, 0))) =>
          /\ Block(yms', 0) = Block(yms, 0)
          /\ Block(ws'.prev_der, 0) = Block(ws.prev_der, 0)
          /\ ws.ms_order >= 2 =>
                /\ Block(yms', 1) = Block(yms, 0)
                /\ Block(ws'.prev_der, 1) = Block(ws.prev_der, 0)]_vars

RollIdempotentWitness ==
    /\ op.name = "set_next"
    /\ op.arg = "again"
    /\ nrolls = 2
    /\ ws.ms_order = 4
    /\ ws.system_size = 2
    /\ sys = "coupled"
    /\ Block(ws.prev_der, 1) = Block(ws.prev_der, 0)

(***************************************************************************)
(* Vocabulary of the single-step properties                                *)
(***************************************************************************)
\* the derivative function of a single-step run
FRK(xx, v) == Yprime(sys, Inp(wsrk.system_size, xx, v, args))

\* the vector y + q*k
Axpy(q, k, y) ==
    [i \in 0 .. wsrk.system_size - 1 |-> RAdd(y[i], RMul(q, k[i]))]

\* the grid point x + q*h
Node(q) == RAdd(x, RMul(q, h))

\* the grid points of the derivative calls a call logged, in order
CallPoints == [c \in 1 .. Len(calls) |-> calls[c][1]]

\* nodes of the 6-stage table of real_rungekutta5, and the stage buffers
\* k1 .. k6 as the call left them
RK5Nodes == <<Zero, Q(1, 4), Q(1, 4), Q(1, 2), Q(3, 4), R(1)>>

RK5Stages ==
    <<wsrk.work1, wsrk.work2, wsrk.work3, wsrk.work4, wsrk.work5, wsrk.work6>>

(***************************************************************************)
(* Properties of the single-step engine                                    *)
(***************************************************************************)
\* C11: rungekutta4 returns y + h/6*(k1 + 2*k2 + 2*k3 + k4) with
\* k1 = f(x, y), k2 = f(x + h/2, y + h/2*k1), k3 = f(x + h/2, y + h/2*k2),
\* k4 = f(x + h, y + h*k3), every stage taking the whole vector of the
\* stage before.
RK4Formula ==
    (op.name = "rk" /\ op.arg = "rk4") =>
        LET k1 == FRK(x, yrk)
            k2 == FRK(Node(Q(1, 2)), Axpy(RMul(Q(1, 2), h), k1, yrk))
            k3 == FRK(Node(Q(1, 2)), Axpy(RMul(Q(1, 2), h), k2, yrk))
            k4 == FRK(Node(R(1)), Axpy(h, k3, yrk))
        IN  ynext = [i \in 0 .. wsrk.system_size - 1 |->
                       RAdd(yrk[i],
                            RMul(RMul(h, Q(1, 6)),
                                 RAdd(RAdd(k1[i], RMul(R(2), k2[i])),
                                      RAdd(RMul(R(2), k3[i]), k4[i]))))]

RK4FormulaWitness ==
    /\ op.name = "rk"
    /\ op.arg = "rk4"
    /\ sys = "coupled"
    /\ wsrk.system_size = 2
    /\ nrolls = 1
    /\ ynext # yrk

\* C12: rungekutta2 returns y + h/2*(k1 + k2) with k1 = f(x, y) and
\* k2 = f(x + h, y + h*k1).
RK2Formula ==
    (op.name = "rk" /\ op.arg = "rk2") =>
        LET k1 == FRK(x, yrk)
            k2 == FRK(Node(R(1)), Axpy(h, k1, yrk))
        IN  ynext = [i \in 0 .. wsrk.system_size - 1 |->
                       RAdd(yrk[i],
                            RMul(RMul(h, Q(1, 2)), RAdd(k1[i], k2[i])))]

RK2FormulaWitness ==
    /\ op.name = "rk"
    /\ op.arg = "rk2"
    /\ sys = "coupled"
    /\ wsrk.system_size = 2
    /\ nrolls = 1
    /\ ynext # yrk

\* C13: rungekutta5 evaluates its six stages at the nodes 0, 1/4, 1/4,
\* 1/2, 3/4, 1 and returns y + h/90*(7*k1 + 32*k3 + 12*k4 + 32*k5 + 7*k6);
\* for a constant derivative c every stage state is y + node*h*c and the
\* result is y + h*c.
RK5Tableau ==
    (op.name = "rk" /\ op.arg = "rk5") =>
        /\ Len(calls) = 6
        /\ \A j \in 1 .. 6 :
              /\ calls[j][1] = Node(RK5Nodes[j])
              /\ RK5Stages[j] = FRK(calls[j][1], calls[j][2])
        /\ ynext = [i \in 0 .. wsrk.system_size - 1 |->
                       RAdd(yrk[i],
                            RMul(RMul(h, Q(1, 90)),
                                 RAdd(RAdd(RAdd(RMul(R(7), wsrk.work1[i]),
                                                RMul(R(32), wsrk.work3[i])),
                                           RAdd(RMul(R(12), wsrk.work4[i]),
                                                RMul(R(32), wsrk.work5[i]))),
                                      RMul(R(7), wsrk.work6[i]))))]
        /\ sys = "const" =>
              /\ \A j \in 1 .. 6 :
                    calls[j][2] = [i \in 0 .. wsrk.system_size - 1 |->
                                     RAdd(yrk[i],
                                          RMul(RMul(RK5Nodes[j], h), R(args)))]
              /\ ynext = [i \in 0 .. wsrk.system_size - 1 |->
                            RAdd(yrk[i], RMul(h, R(args)))]

RK5TableauWitness ==
    /\ op.name = "rk"
    /\ op.arg = "rk5"
    /\ sys = "const"
    /\ nrolls = 1
    /\ ynext # yrk

\* C14: one rungekutta4 step calls the derivative function exactly 4
\* times, at x, x + h/2, x + h/2, x + h in that order; one rungekutta5 step
\* exactly 6 times, at x, x + h/4, x + h/4, x + h/2, x + 3h/4, x + h.
RKStageCounts ==
    op.name = "rk" =>
        /\ op.arg = "rk4" =>
              CallPoints = <<x, Node(Q(1, 2)), Node(Q(1, 2)), Node(R(1))>>
        /\ op.arg = "rk5" =>
              CallPoints = <<x, Node(Q(1, 4)), Node(Q(1, 4)), Node(Q(1, 2)),
                             Node(Q(3, 4)), Node(R(1))>>

RKStageCountsWitness ==
    /\ op.name = "rk"
    /\ op.arg = "rk4"
    /\ Len(calls) = 4
    /\ wsrk.system_size = 1
    /\ nrolls = 1

\* C15 as stated: one order-2 step makes n derivative calls, n the system
\* size.
RK2CallsPerEquation ==
    (op.name = "rk" /\ op.arg = "rk2") => Len(calls) = wsrk.system_size

\* C15 as the code has it: one order-2 step makes exactly 2 derivative
\* calls, at x and at x + h, whatever the system size.
RK2TwoCalls ==
    (op.name = "rk" /\ op.arg = "rk2") =>
        CallPoints = <<x, Node(R(1))>>

RK2TwoCallsWitness ==
    /\ op.name = "rk"
    /\ op.arg = "rk2"
    /\ Len(calls) = 2
    /\ wsrk.system_size = 1

(***************************************************************************)
(* Properties of the heap and of workspace construction                    *)
(***************************************************************************)
SteppingCalls == {"rk", "general", "adams4pc", "adams6pc", "set_next"}

HeapCalls ==
    {"get_real_multistep_ws", "get_real_rungekutta_ws", "init",
     "destroy_real_multistep_ws", "destroy_real_rungekutta_ws", "exit"}

\* the blocks of a whole workspace
MultistepBlocks == {<<"ws", "struct">>, <<"ws", "prev_der">>}

RungekuttaBlocks ==
    {<<"wsrk", "struct">>} \cup {<<"wsrk", WorkFields[i]>> : i \in 1 .. 7}

\* C16: no stepping call (rungekutta2/4/5, general_multistep, adams4pc,
\* adams6pc, set_next_multistep) makes a heap event or changes the set of
\* live blocks; a step that does either is a construction, a destruction or
\* the bootstrap.
SteppingLeavesHeap ==
    [][/\ op'.name \in SteppingCalls => (heap' = heap /\ allocs' = << >>)
       /\ (heap' # heap \/ allocs' # << >>) => op'.name \in HeapCalls]_vars

SteppingLeavesHeapWitness ==
    /\ op.name = "general"
    /\ op.iter = 1
    /\ nrolls = 1
    /\ heap = MultistepBlocks
    /\ allocs = << >>

\* C17: a malloc that returns NULL ends the process with a failure status
\* at once (it is the last heap event, so the pointer is never used); a
\* constructor that returns has allocated the whole workspace; and the
\* process exits in no other case.
AllocationFailureFatal ==
    /\ (\E i \in 1 .. Len(allocs) : ~allocs[i].ok) <=> phase = "exited"
    /\ phase = "exited" <=> op.name = "exit"
    /\ op.name = "exit" =>
          /\ allocs[Len(allocs)].k = "malloc"
          /\ ~allocs[Len(allocs)].ok
          /\ \A i \in 1 .. Len(allocs) - 1 : allocs[i].ok
          /\ op.arg \in {"get_real_multistep_ws", "get_real_rungekutta_ws",
                         "init_real_multistep"}
    /\ op.name = "get_real_multistep_ws" =>
          /\ heap = MultistepBlocks
          /\ DOMAIN ws.prev_der = 0 .. full_size(ws) - 1
    /\ op.name = "get_real_rungekutta_ws" => heap = RungekuttaBlocks
    /\ op.name = "init" => heap = MultistepBlocks

AllocationFailureFatalWitness ==
    /\ phase = "exited"
    /\ op.arg = "init_real_multistep"
    /\ Len(allocs) = 9
    /\ ~allocs[9].ok

\* C18: the workspace returned by get_real_multistep_ws(p1, p2) has
\* system_size = p1 and ms_order = p2.
ConstructorSizeThenOrder ==
    op.name = "get_real_multistep_ws" =>
        /\ ws.system_size = op.arg[1]
        /\ ws.ms_order = op.arg[2]

(***************************************************************************)
(* Buffer bounds                                                           *)
(***************************************************************************)
\* C19: the derivative buffer has exactly (m+1)*n cells and the state
\* history m*n; init, set_next_multistep and the explicit general step
\* touch state and derivative cells in [0, m*n) only, the implicit general
\* step derivative cells in [0, (m+1)*n) and state cells in [0, m*n) only;
\* no index is negative.
BufferBounds ==
    ws.ms_order >= 1 =>
        LET m == ws.ms_order
            n == ws.system_size
        IN  /\ DOMAIN ws.prev_der = 0 .. (m + 1) * n - 1
            /\ DOMAIN yms = 0 .. m * n - 1
            /\ init_indices(ws) \subseteq 0 .. m * n - 1
            /\ set_next_indices(m, n) \subseteq 0 .. m * n - 1
            /\ history_indices(m, n) \subseteq 0 .. m * n - 1
            /\ history_indices(m, n) \cup scratch_indices(m, n)
                  \subseteq 0 .. (m + 1) * n - 1

BufferBoundsWitness ==
    /\ op.name = "general"
    /\ op.iter = 1
    /\ nrolls = 1
    /\ ws.ms_order = 6
    /\ ws.system_size = 2
    /\ DOMAIN ynext = 0 .. 1

(***************************************************************************)
(* The explicit scheme as a corrector pass with b[0] = 0                   *)
(***************************************************************************)
\* contents a ynext buffer may come in with: finite values and non-finite
Incoming == Scalars \cup {NaN}

Finite(v) == \A i \in DOMAIN v : v[i][2] # 0

\* what general_multistep leaves in ynext when called on the current
\* history with tables a, b, slot b[0] set to 0, iter = 1 and every cell of
\* ynext holding g
WithZeroOnce(a, b, g) ==
    real_general_multistep(h, x, sys, args, ws, yms, a,
                           [b EXCEPT ![0] = Zero], 1,
                           [i \in 0 .. ws.system_size - 1 |-> g]).ynext

EulerCycle ==
    [][/\ (/\ op'.name = "general"
           /\ op'.iter = 0
           /\ ws.ms_order = 1
           /\ op'.a[1] = R(-1)
           /\ op'.b[1] = R(1)) =>
              ynext' = [i \in 0 .. ws.system_size - 1 |->
                          RAdd(yms[i], RMul(h, F(x, yms)[i]))]
       /\ (/\ op'.name = "set_next"
           /\ op'.arg = "ynext"
           /\ ws.ms_order = 1) =>
              /\ yms' = ynext
              /\ Block(ws'.prev_der, 0) = F(RAdd(x, h), ynext)
              /\ Block(ws'.prev_der, 1) = Block(ws.prev_der, 1)
              /\ x' = RAdd(x, h)]_vars

\* two Euler cycles done: each accepted state is the Euler step from the
\* one before
EulerCycleWitness ==
    /\ op.name = "set_next"
    /\ op.arg = "ynext"
    /\ ws.ms_order = 1
    /\ ws.system_size = 2
    /\ sys = "coupled"
    /\ nrolls = 2
    /\ Len(traj) = 3
    /\ \A k \in 1 .. 2 :
          traj[k + 1] = [i \in 0 .. 1 |->
                           RAdd(traj[k][i],
                                RMul(h, F(RMul(R(k - 1), h), traj[k])[i]))]

(***************************************************************************)
(* What the general step writes                                            *)
(***************************************************************************)
\* the derivative history: blocks 0 .. m - 1 of a derivative buffer
DerHistory(der) == Slice(der, 0, ws.ms_order * ws.system_size)

\* C25: general_multistep (either branch) and the Adams wrappers leave the
\* state history and derivative blocks 0 .. m-1 as they were, writing only
\* ynext and, when iter > 0, block m; so after the bootstrap the history
\* changes by the roll alone, a predictor call repeated without a roll
\* returns the same ynext, and what the roll leaves in the history does not
\* depend on block m, which it leaves in place.
GeneralStepFrame ==
    [][/\ op'.name \in {"general", "adams4pc", "adams6pc"} =>
             /\ yms' = yms
             /\ DerHistory(ws'.prev_der) = DerHistory(ws.prev_der)
             /\ DOMAIN ws'.prev_der = DOMAIN ws.prev_der
             /\ op'.iter = 0 => ws' = ws
       /\ (/\ phase \in {"ready", "stepped"}
           /\ \/ yms' # yms
              \/ DerHistory(ws'.prev_der) # DerHistory(ws.prev_der)) =>
             op'.name = "set_next"
       /\ (op'.name = "general" /\ op'.iter = 0) =>
             real_general_multistep(h, x, sys, args, ws', yms', op'.a, op'.b,
                                    0, ynext').ynext = ynext'
       /\ op'.name = "set_next" =>
             /\ Block(ws'.prev_der, ws.ms_order) = Block(ws.prev_der, ws.ms_order)
             /\ \A g \in Scalars :
                   DerHistory(
                     real_set_next_multistep(
                        XNext(op'.arg), sys, args,
                        [ws EXCEPT !.prev_der =
                            CopyInto(@, ws.ms_order * ws.system_size,
                                     ws.system_size,
                                     [i \in 0 .. ws.system_size - 1 |-> g])],
                        yms, Buf(op'.arg)).prev_der)
                   = DerHistory(ws'.prev_der)]_vars

\* a corrected Adams step has written block m, and nothing else of the
\* workspace differs from what the roll before it left
GeneralStepFrameWitness ==
    /\ op.name = "adams4pc"
    /\ op.iter = 2
    /\ sys = "coupled"
    /\ ws.system_size = 2
    /\ nrolls = 1
    /\ Block(ws.prev_der, 4) = F(RAdd(x, h), CorrectorMap(ADAMS4_LEFT, ADAMS4_CORR,
                                       ExplicitValue(ADAMS4_LEFT, ADAMS4_PRED)))
    /\ Block(ws.prev_der, 4) # Block(ws.prev_der, 0)

(***************************************************************************)
(* Corrector iterations compose                                            *)
(***************************************************************************)
\* k successive calls of general_multistep with iter = 1 on the current
\* history, the first fed the current ynext and each later one the
\* workspace and ynext the call before it left
RECURSIVE OneByOne(_, _, _)
OneByOne(k, a, b) ==
    IF k = 0 THEN [ws |-> ws, ynext |-> ynext, calls |-> << >>, y |-> yms]
    ELSE LET r == OneByOne(k - 1, a, b)
         IN  real_general_multistep(h, x, sys, args, r.ws, r.y, a, b, 1,
                                    r.ynext)

\* C27: one call of general_multistep with iter = k >= 1 leaves the ynext
\* that k successive calls with iter = 1 leave, each fed the ynext of the
\* one before, history and coefficients unchanged.
CorrectorComposes ==
    [][(op'.name = "general" /\ op'.iter >= 1) =>
          ynext' = OneByOne(op'.iter, op'.a, op'.b).ynext]_vars

\* two passes from the prediction, the second of which changed ynext
CorrectorComposesWitness ==
    /\ op.name = "general"
    /\ op.iter = 2
    /\ op.b[0] # Zero
    /\ sys = "coupled"
    /\ ws.system_size = 2
    /\ ws.ms_order = 1
    /\ nrolls = 1
    /\ ynext = Iterate(2, op.a, op.b,
                       ExplicitValue(op.a, TableOf("pred", 1, << >>, << >>).b))
    /\ ynext # Iterate(1, op.a, op.b,
                       ExplicitValue(op.a, TableOf("pred", 1, << >>, << >>).b))

(***************************************************************************)
(* The bootstrap's own buffers                                             *)
(***************************************************************************)
\* every block a call allocated it freed exactly once, later, and it freed
\* nothing else
Balanced(log) ==
    /\ \A i \in 1 .. Len(log) :
          log[i].k = "malloc" =>
             Cardinality({j \in 1 .. Len(log) :
                             log[j].k = "free" /\ log[j].block = log[i].block})
                = 1
    /\ \A j \in 1 .. Len(log) :
          log[j].k = "free" =>
             \E i \in 1 .. j - 1 :
                log[i].k = "malloc" /\ log[i].block = log[j].block

\* C29: init_real_multistep frees the state copy and the Runge-Kutta
\* workspace it allocated exactly once each before it returns, so the live
\* blocks are the same after as before; it leaves y0 as the caller passed it
\* and block m of the derivative buffer untouched.
BootstrapBorrows ==
    [][op'.name = "init" =>
          /\ heap' = heap
          /\ Len(allocs') = 18
          /\ Balanced(allocs')
          /\ \A i \in 1 .. Len(allocs') : allocs'[i].block \notin heap
          /\ \A g \in Garbage :
                init_real_multistep(h, sys, args, ws, Y0(ws.system_size),
                                    op'.arg, yms, g).y0 = Y0(ws.system_size)
          /\ Block(ws'.prev_der, ws.ms_order) = Block(ws.prev_der, ws.ms_order)]_vars

BootstrapBorrowsWitness ==
    /\ op.name = "init"
    /\ ws.ms_order = 4
    /\ ws.system_size = 2
    /\ sys = "coupled"
    /\ heap = MultistepBlocks
    /\ Len(allocs) = 18
    /\ Len(steps) = 3
    /\ Block(yms, 0) # Y0(2)

(***************************************************************************)
(* Order conditions of the Adams tables                                    *)
(***************************************************************************)
\* the antiderivative xx^(q+1)/(q+1) of the derivative x^q
Primitive(q, xx) == RMul(Q(1, q + 1), RPow(xx, q + 1))

\* an exact history of order m for the derivative x^q on the grid that
\* ends at the current x: block k is the value at x - k*h
ExactHistory(m, q) == [k \in 0 .. m - 1 |-> Primitive(q, RSub(x, RMul(R(k), h)))]

ExactWorkspace(m, q, g) ==
    [ms_order |-> m, system_size |-> 1,
     prev_der |-> [k \in 0 .. m |->
                     IF k < m THEN RPow(RSub(x, RMul(R(k), h)), q) ELSE g]]

RECURSIVE SumUpto(_, _)
SumUpto(t, j) == IF j < 0 THEN Zero ELSE RAdd(t[j], SumUpto(t, j - 1))

AdamsShape(m, left, pred, corr) ==
    /\ left = [j \in 0 .. m |-> IF j = 0 THEN R(1) ELSE IF j = 1 THEN R(-1) ELSE Zero]
    /\ SumUpto(pred, m) = R(1)
    /\ SumUpto(corr, m) = R(1)

\* the Adams step of order m on the exact history of x^q: the predictor
\* (iter = 0) or the predictor corrected once (iter = 1)
AdamsOnPower(m, q, iter) ==
    (IF m = 4
     THEN real_adams4pc(h, x, "power", q, ExactWorkspace(4, q, Zero),
                        ExactHistory(4, q), iter, [i \in 0 .. 0 |-> Zero])
     ELSE real_adams6pc(h, x, "power", q, ExactWorkspace(6, q, Zero),
                        ExactHistory(6, q), iter, [i \in 0 .. 0 |-> Zero])).ynext[0]

\* C30: the Adams tables have a = {1, -1, 0, ...} and b entries that sum to
\* 1, and wherever a run takes an Adams step, the same step taken from an
\* exact history of y' = x^q on the run's grid lands on the exact value at
\* x + h, predictor and corrector alike: Adams4 for every q <= 3, Adams6 for
\* every q <= 5
AdamsOrderConditions ==
    /\ op.name = "adams4pc" =>
          /\ AdamsShape(4, ADAMS4_LEFT, ADAMS4_PRED, ADAMS4_CORR)
          /\ \A q \in 0 .. 3 : \A iter \in 0 .. 1 :
                AdamsOnPower(4, q, iter) = Primitive(q, RAdd(x, h))
    /\ op.name = "adams6pc" =>
          /\ AdamsShape(6, ADAMS6_LEFT, ADAMS6_PRED, ADAMS6_CORR)
          /\ \A q \in 0 .. 5 : \A iter \in 0 .. 1 :
                AdamsOnPower(6, q, iter) = Primitive(q, RAdd(x, h))

\* an Adams4 step was taken on a grid that makes the cubic's increment
\* differ from the three-step formula's, and an Adams6 step was taken too
AdamsOrderConditionsWitness ==
    /\ op.name = "adams4pc"
    /\ op.iter = 1
    /\ nrolls >= 1
    /\ AdamsOnPower(4, 3, 0) = Primitive(3, RAdd(x, h))
    /\ AdamsOnPower(4, 3, 0) # Primitive(3, x)

(***************************************************************************)
(* The worked example y' = y^2                                             *)
(***************************************************************************)
\* u in ten-thousandths, cut
TenThousandths(u) == Trunc(u)[1] * (10000 \div Trunc(u)[2])

\* u is v ten-thousandths to three decimals
About(u, v) == TenThousandths(u) - v \in -10 .. 10

\* the prediction was just made in the run of step 0.1
QuinneyPredicted ==
    /\ op.name = "general"
    /\ op.iter = 0
    /\ sys = "square"
    /\ h = Q(1, 10)
    /\ x = h

\* the ynext that k corrector calls of one pass each leave, the first one
\* given the next-state buffer v, each later one the buffer as the call
\* before left it
RECURSIVE Corrected(_, _)
Corrected(k, v) ==
    IF k = 0 THEN v
    ELSE LET w == real_general_multistep(h, x, sys, args, ws, yms,
                      TableOf("corr", 2, << >>, << >>).a,
                      TableOf("corr", 2, << >>, << >>).b, 1, v).ynext
         IN  IF w = w THEN Corrected(k - 1, w) ELSE v

TenCorrections(k) == Corrected(k, ynext)[0]

\* C22 as stated: the prediction is about 1.1078 and ten corrector calls
\* lead to about 1.125
QuinneyValuesStated ==
    QuinneyPredicted =>
        /\ About(ynext[0], 11078)
        /\ About(TenCorrections(10), 11250)

\* C22: for y' = y^2, y(0) = 1, h = 0.1, the order-2 tables and the exact
\* seed 1 / (1 - 0.1), the explicit step called at x = 0.1 yields about
\* 1.2463 for x = 0.2, and ten corrector calls from that prediction settle
\* (the ninth and the tenth agree) at about 1.2511
QuinneyValues ==
    QuinneyPredicted =>
        /\ About(ynext[0], 12463)
        /\ About(TenCorrections(10), 12511)
        /\ About(TenCorrections(9), TenThousandths(TenCorrections(10)))

\* the run of step 0.1 went from the prediction through corrector calls to
\* a value that one more pass leaves as it is
QuinneyValuesWitness ==
    /\ op.name = "general"
    /\ op.iter = 1
    /\ sys = "square"
    /\ h = Q(1, 10)
    /\ op.b[0] = Q(1, 2)
    /\ About(ynext[0], 12511)
    /\ TenCorrections(1) = ynext[0]

(***************************************************************************)
(* The single-step engine is used by the bootstrap only                    *)
(***************************************************************************)
\* heap events of the call in op on a block of a Runge-Kutta workspace
RungekuttaEvents(log) ==
    {k \in 1 .. Len(log) :
        log[k].block[2] \in {"struct"} \cup {WorkFields[i] : i \in 1 .. 7}}

\* C23: a call of general_multistep, adams4pc, adams6pc or set_next takes
\* no single step, makes no heap event on a Runge-Kutta workspace and
\* leaves the caller's Runge-Kutta workspace as it was; whenever a library
\* call has taken single steps, that call was init_real_multistep
SteppersOnlyInBootstrap ==
    [][/\ op'.name \in {"general", "adams4pc", "adams6pc", "set_next"} =>
            /\ steps' = << >>
            /\ RungekuttaEvents(allocs') = {}
            /\ wsrk' = wsrk
       /\ steps' # << >> => op'.name = "init"]_vars

\* a run whose bootstrap took single steps on a Runge-Kutta workspace of
\* its own, and which later rolled its history and stepped again
SteppersOnlyInBootstrapWitness ==
    /\ op.name = "adams4pc"
    /\ op.iter = 2
    /\ nrolls = 2
    /\ steps = << >>
    /\ Len(traj) = 6

(***************************************************************************)
(* A Runge-Kutta step as a pure transition                                 *)
(***************************************************************************)
\* workspace contents a stepper may find: never written, zeroed, non-finite
Contents == Garbage \cup {Zero, NaN}

Last(t) == t[Len(t)]

\* C26: a Runge-Kutta step leaves the caller's y as it was; every
\* derivative call is handed one of the workspace's buffers as the state;
\* ynext is written once, after the last derivative call; and the result
\* is the one the same stepper gives on a workspace of any other content,
\* whatever steppers used the workspace before
RungeKuttaPure ==
    [][op'.name = "rk" =>
          LET r == CallRK(op'.arg, h, x, sys, args, wsrk, yrk)
          IN  /\ yrk' = yrk
              /\ \A k \in 1 .. Len(r.trace) :
                    /\ r.trace[k].k = "call" =>
                          r.trace[k].state \in {WorkFields[i] : i \in 1 .. 7}
                    /\ r.trace[k].out = "ynext" => k = Len(r.trace)
              /\ Last(r.trace).out = "ynext"
              /\ \A g \in Contents :
                    ynext' = CallRK(op'.arg, h, x, sys, args,
                                    get_real_rungekutta_ws(wsrk.system_size, g),
                                    yrk).ynext]_vars

\* a fifth-order step on a workspace that other steps have used, from a
\* state those steps moved
RungeKuttaPureWitness ==
    /\ op.name = "rk"
    /\ op.arg = "rk5"
    /\ nrolls >= 1
    /\ sys = "coupled"
    /\ wsrk.system_size = 2
    /\ yrk # Y0(2)
    /\ ynext # yrk
    /\ \A g \in Contents : wsrk # get_real_rungekutta_ws(2, g)

(***************************************************************************)
(* Reads of cells never written                                            *)
(***************************************************************************)
\* the cells of the m state blocks and of derivative blocks 0 .. m-1
HistoryCells(m, s) ==
    {<<"y", k>> : k \in 0 .. m * s - 1} \cup {<<"der", k>> : k \in 0 .. m * s - 1}

\* the stages of the stepping call in o on the workspace at hand
StagesOf(o) ==
    IF o.name = "general"
    THEN general_multistep_cells(ws.ms_order, ws.system_size, o.iter)
    ELSE IF o.name \in {"adams4pc", "adams6pc"}
    THEN adamspc_cells(ws.ms_order, ws.system_size, o.iter)
    ELSE set_next_multistep_cells(ws.ms_order, ws.system_size, BufCells(o.arg))

\* C28: init on a fresh workspace writes every cell of the m state blocks
\* and of derivative blocks 0 .. m-1; in the cycle of predictor, corrector
\* and roll calls that follows, no call reads a cell of the history, of
\* prev_der (scratch block m included) or of ynext that nothing has
\* written; while no history is set, an explicit general step would read
\* cells never written
NoUnwrittenRead ==
    [][/\ op'.name = "init" =>
            /\ written = {}
            /\ HistoryCells(ws.ms_order, ws.system_size) \subseteq written'
       /\ op'.name \in {"general", "adams4pc", "adams6pc", "set_next"} =>
            ReadUnwritten(StagesOf(op'), 1, written) = {}
       /\ phase = "uninit" =>
            ReadUnwritten(general_multistep_cells(ws.ms_order,
                                                  ws.system_size, 0),
                          1, written) # {}]_vars

\* a corrector call of two passes in a later cycle of a run of order 4 and
\* size 2, every cell written by then
NoUnwrittenReadWitness ==
    /\ op.name = "general"
    /\ op.iter = 2
    /\ nrolls >= 1
    /\ ws.ms_order = 4
    /\ ws.system_size = 2
    /\ written = HistoryCells(4, 2) \cup BlockCells("der", 8, 2)
                 \cup BlockCells("ynext", 0, 2)

(***************************************************************************)
(* Runs on workspaces of their own                                         *)
(***************************************************************************)
\* the buffers of run t after the same two calls made with no other run
\* about
ParAloneAfter(r, xx, m0, st) ==
    [y     |-> real_set_next_multistep(RAdd(xx, r.h), r.sys, r.args, st.ws,
                                       st.y, st.ynext).y,
     der   |-> real_set_next_multistep(RAdd(xx, r.h), r.sys, r.args, st.ws,
                                       st.y, st.ynext).prev_der,
     ynext |-> st.ynext]

ParAlone(t) ==
    ParAloneAfter(ParRun(t), ParX(t), ParMem(t),
        real_adams4pc(ParRun(t).h, ParX(t), ParRun(t).sys, ParRun(t).args,
                      [ms_order |-> 4, system_size |-> ParRun(t).s,
                       prev_der |-> ParMem(t).der],
                      ParMem(t).y, ParRun(t).iter, ParMem(t).ynext))

ParReturned(p) == \A t \in Threads : p.thr[t].pc > Len(ParProgram(t))

\* C21: two runs on workspaces, histories and next-state buffers of their
\* own, their calls interleaved read by read and write by write: no step
\* changes the static tables, a step of one run leaves the buffers and
\* the accumulator of the other as they were, and when both runs have
\* returned each one's buffers hold what its calls leave when made alone
IndependentRuns ==
    [][/\ par'.statics = par.statics
       /\ \A t \in Threads :
             par'.thr[t] = par.thr[t] =>
                /\ par'.mem[t] = par.mem[t]
                /\ par'.summ[SummCell(t)] = par.summ[SummCell(t)]
       /\ ParReturned(par') =>
             \A t \in Threads : par'.mem[t] = ParAlone(t)]_vars

\* both runs have returned, each with a step that moved its state
IndependentRunsWitness ==
    /\ par # NoPar
    /\ ParReturned(par)
    /\ \A t \in Threads :
          /\ par.mem[t] = ParAlone(t)
          /\ par.mem[t].ynext # ParMem(t).ynext
          /\ par.mem[t].y # ParMem(t).y

====
